---- MODULE Spec2Model ----
(***************************************************************************)
(* Model of the scheduling core of harley-algo: Solver.generate of         *)
(* src/src/utils/solver_v2.py.  One request builds a CP-SAT model from the *)
(* scenario action, the rooms, the assessments' activities and conditions, *)
(* has the solver pick an assignment and decodes it into per-client        *)
(* schedules.  The solver is an external library: Solve returns any        *)
(* assignment that satisfies every constraint the code has added (status   *)
(* FEASIBLE), one of minimal objective (status OPTIMAL), or no assignment  *)
(* (INFEASIBLE, UNKNOWN).                                                  *)
(***************************************************************************)
EXTENDS Integers, Sequences, FiniteSets, TLC

VARIABLES
  pc,                    \* position inside the controller, the setters and Solver.generate
  kwargs,                \* the event Controller.retrieve_generated_scenario was called with
  scenario_action,       \* Solver.__scenario_action and the values its setter derives
  resources,             \* Solver.__resources, in the order received
  activities,            \* Solver.__activities: the activities in the order retrieved
  assessments,           \* Solver.__assessments: name -> enabled, data
  activities_names_map,  \* Solver.__activities_names_map: lower-cased name -> activities
  clients_scenarios_map, \* Solver.__clients_scenarios_map: client id -> ClientScenario
  schedules,             \* Solver.__schedules: client id -> slots -> modes
  num_floors,            \* Solver.__num_floors: the highest floor of a room offered
  constraints,           \* the constraints added to Solver.model, one record per helper call
  objective,             \* the mode of the objective given to Solver.model
  status,                \* Solver.__status
  solution,              \* the solver's assignment: client id -> values of its variables
  generated_scenarios,   \* Solver.__generated_scenarios
  error                  \* the exception that ended generate, or "none"

vars == <<pc, kwargs, scenario_action, resources, activities, assessments, activities_names_map,
          clients_scenarios_map,
          schedules, num_floors, constraints, objective, status, solution, generated_scenarios,
          error>>

None == "None"

(***************************************************************************)
(* Bounds of the model.                                                    *)
(***************************************************************************)
\* the longest day modelled, in minutes from the first arrival to 18:00
MaxHorizon == 75
\* the largest number of clients of one request
MaxClients == 3

\* the free gap Booleans an answer of the solver may set, and the last slot of a
\* client's schedule whose free gap Booleans are drawn
MaxExtraGaps == 1
MaxGapSlot == 2

(***************************************************************************)
(* Small helpers.                                                          *)
(***************************************************************************)
Max(a, b) == IF a >= b THEN a ELSE b

Min(a, b) == IF a <= b THEN a ELSE b

Range(s) == {s[i] : i \in DOMAIN s}

RECURSIVE SumSeq(_)
SumSeq(s) == IF s = <<>> THEN 0 ELSE Head(s) + SumSeq(Tail(s))

RECURSIVE SumOver(_, _)
SumOver(S, f) ==
  IF S = {} THEN 0
  ELSE LET x == CHOOSE y \in S : TRUE IN f[x] + SumOver(S \ {x}, f)

\* 1-based sequence -> function on 0..Len-1 (Python list or dict keyed by position)
ZeroBased(s) == [i \in 0..(Len(s) - 1) |-> s[i + 1]]

(***************************************************************************)
(* Activities (m.Activity) as the controller hands them to the solver.     *)
(* Names are the lower-cased activity names the solver looks up.           *)
(***************************************************************************)
CheckInName == "check-in, consent & change"
BloodsName == "bloods & obs"
LunchName == "lunch"
CheckoutName == "checkout"
FirstConsultName == "consultation and physical"
FinalConsultName == "final consult"
MriOptimalName == "mri optimal"
MriUltimateName == "mri ultimate"

Activity(id, name, room_type, resource_type, gendered, dflt, male, female) ==
  [activity_id |-> id, activity_name |-> name, room_type |-> room_type,
   resource_type |-> resource_type, is_gender_time_allocated |-> gendered,
   enabled |-> TRUE, deleted |-> FALSE,
   time_allocations |-> [default_time |-> dflt, male |-> male, female |-> female]]

\* the activity list of one request; ci is the check-in duration
ActivityList(ci) ==
  << Activity("checkin", CheckInName, None, "CLIENT", FALSE, ci, ci, ci),
     Activity("bloods", BloodsName, "PHLEBOTOMY_ROOM", "OTHER", FALSE, 5, 5, 5),
     Activity("consult", FirstConsultName, "DOCTOR_ROOM", "OTHER", FALSE, 5, 5, 5),
     Activity("mriO", MriOptimalName, "MRI_1.5T_ROOM", "OTHER", TRUE, 5, 5, 10),
     Activity("mriU", MriUltimateName, "MRI_1.5T_ROOM", "OTHER", FALSE, 10, 10, 10),
     Activity("final", FinalConsultName, "DOCTOR_ROOM", "OTHER", FALSE, 5, 5, 5),
     Activity("lunch", LunchName, None, "CLIENT", FALSE, 5, 5, 5),
     Activity("checkout", CheckoutName, None, "CLIENT", FALSE, 5, 5, 5) >>

(***************************************************************************)
(* Rooms (m.Resource).                                                     *)
(***************************************************************************)
Resource(id, type, room_type, location) ==
  [resource_id |-> id, type |-> type, room_type |-> room_type, location |-> location]

OneDouble == << Resource("R1", "CLIENT", "DOUBLE_CLIENT_ROOM", 0) >>

SingleAndDouble ==
  << Resource("R1", "CLIENT", "SINGLE_CLIENT_ROOM", 0),
     Resource("R2", "CLIENT", "DOUBLE_CLIENT_ROOM", 0) >>

TwoDoubles ==
  << Resource("R1", "CLIENT", "DOUBLE_ACCESSIBLE", 0),
     Resource("R2", "CLIENT", "DOUBLE_CLIENT_ROOM", 0) >>

\* the rooms of the other activities; upper is the floor of the doctor and MRI rooms
OtherRooms(upper) ==
  << Resource("P1", "OTHER", "PHLEBOTOMY_ROOM", 0),
     Resource("D1", "OTHER", "DOCTOR_ROOM", upper),
     Resource("D2", "OTHER", "DOCTOR_ROOM", upper),
     Resource("M1", "OTHER", "MRI_1.5T_ROOM", upper) >>

(***************************************************************************)
(* Conditions (m.Condition with its m.Criteria).  A TIME value is a string *)
(* in the source; the model keeps what the parser reads of it: the number  *)
(* of colons and the fields.                                               *)
(***************************************************************************)
NoValue ==
  [isnone |-> TRUE, colons |-> 0, hour |-> 0, minute |-> 0, second |-> 0, int |-> 0,
   ref |-> None]

\* "HH:MM"
HM(h, m) == [NoValue EXCEPT !.isnone = FALSE, !.colons = 1, !.hour = h, !.minute = m]

\* "HH:MM:SS"
HMS(h, m, s) ==
  [NoValue EXCEPT !.isnone = FALSE, !.colons = 2, !.hour = h, !.minute = m, !.second = s]

\* a string of digits, such as "30" or "-1"
IntText(n) == [NoValue EXCEPT !.isnone = FALSE, !.int = n]

\* an activity id
ActRef(id) == [NoValue EXCEPT !.isnone = FALSE, !.ref = id]

Condition(id, activity_id, type, criteria_type, value, bstart, bend) ==
  [condition_id |-> id, activity_id |-> activity_id, type |-> type,
   enabled |-> TRUE, mandatory |-> TRUE, deleted |-> FALSE,
   criteria |-> [criteria_type |-> criteria_type, value |-> value,
                 between_values |-> [start |-> bstart, end |-> bend]]]

FixedOrder(id, activity_id, k) ==
  Condition(id, activity_id, "IN_FIXED_ORDER_AS", "ORDER", IntText(k), NoValue, NoValue)

ClientCount(sm, sf, cmm, cff, cmf) ==
  [single_male |-> sm, single_female |-> sf, couple_male_male |-> cmm,
   couple_female_female |-> cff, couple_male_female |-> cmf]

NumClientsOf(count) ==
  count.single_male + count.single_female + 2 * count.couple_male_male
    + 2 * count.couple_female_female + 2 * count.couple_male_female

(***************************************************************************)
(* The requests of the model: what Controller.retrieve_generated_scenario  *)
(* hands to the solver.                                                    *)
(***************************************************************************)
NoClients == ClientCount(0, 0, 0, 0, 0)

\* Controller: name -> the activities of that lower-cased name, in order of arrival
ActivityNamesMap(acts) ==
  [name \in {acts[i].activity_name : i \in DOMAIN acts} |->
     SelectSeq(acts, LAMBDA a : a.activity_name = name)]

\* m.ClientType: the members of the enum
ClientTypes == {"OPTIMAL", "ULTIMATE"}

\* the assessment names that occur in an activity name, letter case ignored
Mentions(activity_name) ==
  CASE activity_name = MriOptimalName -> {"OPTIMAL"}
    [] activity_name = MriUltimateName -> {"ULTIMATE"}
    [] OTHER -> {}

\* re.search(pattern, activity_name, re.IGNORECASE) is not None, the pattern being
\* "(" + "|".join(other_names) + ")": with no other name the pattern is "()", which
\* matches the empty string at the start of every name
Search(other_names, activity_name) ==
  other_names = {} \/ Mentions(activity_name) \cap other_names # {}

\* Controller: the buckets of activity_names_map, in the order of the dict, whose name
\* the pattern of the other names does not match
Buckets(acts, other_names) ==
  LET positions == [p \in DOMAIN acts |-> p]
      firsts == SelectSeq(positions,
                  LAMBDA p : \A q \in 1..(p - 1) :
                               acts[q].activity_name # acts[p].activity_name)
      kept == SelectSeq(firsts, LAMBDA p : ~Search(other_names, acts[p].activity_name))
  IN  [i \in DOMAIN kept |->
         SelectSeq(acts, LAMBDA a : a.activity_name = acts[kept[i]].activity_name)]

\* an assessment as retrieved: enabled or not, no activities yet
DbAssessment(name, enabled, conditions) ==
  [assessment_name |-> name, enabled |-> enabled,
   data |-> [activities |-> << >>, activity_conditions |-> conditions, num_clients |-> 0]]

\* the assessment of a request in which Optimal and Ultimate are the enabled ones
AssessmentRecord(name, acts, conditions) ==
  [DbAssessment(name, TRUE, conditions) EXCEPT
     !.data.activities = Buckets(acts, ClientTypes \ {name})]

(***************************************************************************)
(* serialize_as_dataclass on the event: every key is renamed by            *)
(* format_field, a key that names no field of the dataclass is skipped and *)
(* a field without key keeps its default.                                  *)
(***************************************************************************)
\* format_field: "_" and the lower-case letter for every capital
format_field(key) ==
  CASE key = "firstClientArrivalTime" -> "first_client_arrival_time"
    [] key = "maxGap" -> "max_gap"
    [] key = "doctorsOnDuty" -> "doctors_on_duty"
    [] key = "allowSimultaneousTransfers" -> "allow_simultaneous_transfers"
    [] key = "outOfOrderRooms" -> "out_of_order_rooms"
    [] key = "clientElite" -> "client_elite"
    [] key = "clientUltimate" -> "client_ultimate"
    [] key = "singleMale" -> "single_male"
    [] key = "singleFemale" -> "single_female"
    [] key = "coupleMaleMale" -> "couple_male_male"
    [] key = "coupleFemaleFemale" -> "couple_female_female"
    [] key = "coupleMaleFemale" -> "couple_male_female"
    [] OTHER -> key

\* the value given for a field, or the default of the field
FieldOf(given, field, default) ==
  IF \E key \in DOMAIN given : format_field(key) = field
  THEN given[CHOOSE key \in DOMAIN given : format_field(key) = field]
  ELSE default

\* serialize_as_dataclass(ClientElite, ...) and (ClientUltimate, ...)
SerializeClientCount(given) ==
  ClientCount(FieldOf(given, "single_male", 0), FieldOf(given, "single_female", 0),
              FieldOf(given, "couple_male_male", 0), FieldOf(given, "couple_female_female", 0),
              FieldOf(given, "couple_male_female", 0))

\* the counts of a request under the keys of the event
EventCount(count) ==
  [singleMale |-> count.single_male, singleFemale |-> count.single_female,
   coupleMaleMale |-> count.couple_male_male,
   coupleFemaleFemale |-> count.couple_female_female,
   coupleMaleFemale |-> count.couple_male_female]

\* serialize_as_dataclass(ScenarioActionData, ...): the fields are out_order_rooms,
\* client_elite and client_ultimate
SerializeScenarioActionData(given) ==
  [out_order_rooms |-> FieldOf(given, "out_order_rooms", << >>),
   client_elite |-> SerializeClientCount(FieldOf(given, "client_elite", EventCount(NoClients))),
   client_ultimate |->
     SerializeClientCount(FieldOf(given, "client_ultimate", EventCount(NoClients)))]

\* serialize_as_dataclass(ScenarioAction, **kwargs)
SerializeScenarioAction(given) ==
  [first_client_arrival_time |-> given.firstClientArrivalTime,
   max_gap |-> FieldOf(given, "max_gap", 10),
   doctors_on_duty |-> FieldOf(given, "doctors_on_duty", 0),
   allow_simultaneous_transfers |-> FieldOf(given, "allow_simultaneous_transfers", FALSE),
   data |-> SerializeScenarioActionData(given.data)]

\* the event of a request
Event(arrival, max_gap, doctors, simultaneous, out_of_order, elite, ultimate) ==
  [firstClientArrivalTime |-> arrival, maxGap |-> max_gap, doctorsOnDuty |-> doctors,
   allowSimultaneousTransfers |-> simultaneous,
   data |-> [outOfOrderRooms |-> out_of_order, clientElite |-> EventCount(elite),
             clientUltimate |-> EventCount(ultimate)]]

Request(arrival, max_gap, doctors, simultaneous, elite, ultimate, rooms, ci, condsO, condsU) ==
  [entry |-> "solver",
   kwargs |-> Event(arrival, max_gap, doctors, simultaneous, << >>, elite, ultimate),
   scenario_action |->
     SerializeScenarioAction(Event(arrival, max_gap, doctors, simultaneous, << >>, elite,
                                   ultimate)),
   resources |-> rooms,
   activities |-> ActivityList(ci),
   activities_names_map |-> ActivityNamesMap(ActivityList(ci)),
   assessments |->
     [name \in {"OPTIMAL", "ULTIMATE"} |->
        IF name = "OPTIMAL" THEN AssessmentRecord(name, ActivityList(ci), condsO)
        ELSE AssessmentRecord(name, ActivityList(ci), condsU)]]

(***************************************************************************)
(* Solver.scenario_action setter: the values derived from the request.     *)
(* A timedelta is its number of seconds.                                   *)
(***************************************************************************)
Timedelta(h, m, s) == 3600 * h + 60 * m + s

TotalMinutes(seconds) == seconds \div 60

time_start ==
  Timedelta(scenario_action.first_client_arrival_time.hour,
            scenario_action.first_client_arrival_time.minute, 0)

time_end == Timedelta(18, 0, 0)

time_max_interval == TotalMinutes(Timedelta(0, 5, 0))

time_max_gap == TotalMinutes(Timedelta(0, scenario_action.max_gap, 0))

time_transfer == TotalMinutes(Timedelta(0, 5, 0))

horizon == TotalMinutes(time_end - time_start)

num_doctors == scenario_action.doctors_on_duty

simultaneous_transfers == scenario_action.allow_simultaneous_transfers

(***************************************************************************)
(* Solver.resources setter: rooms by type and by id.                       *)
(***************************************************************************)
RoomKey(resource) == IF resource.type = "CLIENT" THEN "CLIENT" ELSE resource.room_type

rooms_map(key) == SelectSeq(resources, LAMBDA r : RoomKey(r) = key)

ids_rooms_map(room_id) ==
  LET i == CHOOSE j \in DOMAIN resources :
             /\ resources[j].resource_id = room_id
             /\ \A k \in DOMAIN resources : resources[k].resource_id = room_id => k <= j
  IN  resources[i]

\* __get_assessment_priority compares any other name with m.ClientType.CORE.value,
\* a member the enum does not have: reading it raises AttributeError
PriorityRaises(name) == name \notin ClientTypes

\* Solver.assessments setter: the names sorted by __get_assessment_priority
AssessmentPriority(name) == IF name = "OPTIMAL" THEN 0 ELSE 1

AssessmentNames ==
  LET names == DOMAIN assessments
      n == Cardinality(names)
  IN  CHOOSE s \in [1..n -> names] :
        /\ \A i, j \in 1..n : i < j => AssessmentPriority(s[i]) < AssessmentPriority(s[j])

(***************************************************************************)
(* Solver.__initialize_variables: the clients and their schedule skeletons *)
(***************************************************************************)
NoNumber == 0 - 1

Kinds ==
  {"single_male", "single_female", "couple_male_male", "couple_female_female",
   "couple_male_female"}

\* the tuples of client_infos: (sex, sex of the partner, marital type)
ClientInfo(kind) ==
  CASE kind = "single_male" -> [sex |-> "MALE", other |-> None, type |-> "SINGLE"]
    [] kind = "single_female" -> [sex |-> "FEMALE", other |-> None, type |-> "SINGLE"]
    [] kind = "couple_male_male" -> [sex |-> "MALE", other |-> "MALE", type |-> "COUPLE"]
    [] kind = "couple_female_female" ->
         [sex |-> "FEMALE", other |-> "FEMALE", type |-> "COUPLE"]
    [] kind = "couple_male_female" -> [sex |-> "MALE", other |-> "FEMALE", type |-> "COUPLE"]

ClientScenario(client_number, client_type, type, sex, couple_id) ==
  [client_number |-> client_number, client_type |-> client_type, type |-> type,
   sex |-> sex,
   single_client_no |-> IF type = "SINGLE" THEN client_number ELSE NoNumber,
   couple_client_no |-> IF type = "COUPLE" THEN couple_id ELSE NoNumber]

\* count_data of an assessment: client_optimal is read as client_elite
CountData(assessment_name) ==
  IF assessment_name = "OPTIMAL" THEN scenario_action.data.client_elite
  ELSE scenario_action.data.client_ultimate

\* random.choice(list(client_infos)): any kind that still has clients to place
ChoiceOfClientInfo(count) == {kind \in Kinds : count[kind] > 0}

\* the client loop of one assessment: every sequence of clients the random choices can give
RECURSIVE ClientsOfAssessment(_, _, _, _)
ClientsOfAssessment(client_type, count, client_id, couple_id) ==
  IF NumClientsOf(count) = 0 THEN {<< >>}
  ELSE UNION {
         LET info == ClientInfo(kind)
             first == ClientScenario(client_id, client_type, info.type, info.sex, couple_id)
             other == ClientScenario(client_id + 1, client_type, info.type, info.other,
                                     couple_id)
             placed == IF info.type = "COUPLE" THEN << first, other >> ELSE << first >>
             left == [count EXCEPT ![kind] = @ - 1]
         IN  { placed \o rest :
                 rest \in ClientsOfAssessment(client_type, left, client_id + Len(placed),
                            IF info.type = "COUPLE" THEN couple_id + 1 ELSE couple_id) }
         : kind \in ChoiceOfClientInfo(count) }

NumCouplesOf(count) ==
  count.couple_male_male + count.couple_female_female + count.couple_male_female

\* the assessment loop: the clients of every assessment, in assessment order
RECURSIVE ClientsOfAssessments(_, _, _)
ClientsOfAssessments(names, previous_num_clients, couple_id) ==
  IF names = << >> THEN {<< >>}
  ELSE LET count == CountData(Head(names))
       IN  { mine \o rest :
               mine \in ClientsOfAssessment(Head(names), count, previous_num_clients,
                                            couple_id),
               rest \in ClientsOfAssessments(Tail(names),
                          previous_num_clients + NumClientsOf(count),
                          couple_id + NumCouplesOf(count)) }

\* the room type an activity asks for
RoomTypeOf(activity) ==
  IF activity.resource_type = "OTHER" THEN activity.room_type ELSE "CLIENT"

DurationFor(activity, sex) ==
  IF activity.is_gender_time_allocated
  THEN IF sex = "MALE" THEN activity.time_allocations.male
       ELSE activity.time_allocations.female
  ELSE activity.time_allocations.default_time

\* the room loop of one activity: one mode (activity_type tuple) per room offered
RECURSIVE ActivityRooms(_, _, _, _)
ActivityRooms(activity, rooms, room_count, client) ==
  IF rooms = << >> THEN << >>
  ELSE LET room == Head(rooms)
       IN  IF room_count >= num_doctors /\ RoomTypeOf(activity) = "DOCTOR_ROOM" THEN << >>
           ELSE IF room.room_type = "SINGLE_CLIENT_ROOM" /\ client.type = "COUPLE"
           THEN ActivityRooms(activity, Tail(rooms), room_count, client)
           ELSE << [duration |-> DurationFor(activity, client.sex),
                    id |-> activity.activity_id,
                    room_id |-> room.resource_id,
                    room_floor |-> room.location,
                    client_id |-> client.client_number,
                    client_sex |-> client.sex,
                    client_type |-> client.client_type,
                    client_marital_type |-> client.type] >>
                \o ActivityRooms(activity, Tail(rooms), room_count + 1, client)

\* the modes of one bucket of activities
RECURSIVE BucketRooms(_, _)
BucketRooms(bucket, client) ==
  IF bucket = << >> THEN << >>
  ELSE LET activity == Head(bucket)
       IN  (IF activity.deleted \/ ~activity.enabled THEN << >>
            ELSE ActivityRooms(activity, rooms_map(RoomTypeOf(activity)), 0, client))
           \o BucketRooms(Tail(bucket), client)

ScheduleOf(client) ==
  LET buckets == assessments[client.client_type].data.activities
  IN  [i \in DOMAIN buckets |-> BucketRooms(buckets[i], client)]

MaxOf(S) == CHOOSE x \in S : \A y \in S : y <= x

MinOf(S) == CHOOSE x \in S : \A y \in S : x <= y

\* __num_floors after the loops: the highest floor of a room offered to some client
NumFloors(all_schedules) ==
  MaxOf({0} \cup UNION { UNION { {all_schedules[c][i][k].room_floor :
                                    k \in DOMAIN all_schedules[c][i]} :
                                 i \in DOMAIN all_schedules[c] } :
                         c \in DOMAIN all_schedules })

Clients == DOMAIN clients_scenarios_map

(***************************************************************************)
(* The requests the model draws from.                                      *)
(***************************************************************************)
\* first-arrival times "HH:MM" whose day is MaxHorizon minutes long
ArrivalTimes ==
  {t \in [hour : {16, 17}, minute : 0..59] :
     TotalMinutes(Timedelta(18, 0, 0) - Timedelta(t.hour, t.minute, 0)) = MaxHorizon}

\* every activity of an assessment at a fixed order
FixedAll(mri) ==
  << FixedOrder("f1", "checkin", 0), FixedOrder("f2", "bloods", 1),
     FixedOrder("f3", "consult", 2), FixedOrder("f4", mri, 3),
     FixedOrder("f5", "final", 4), FixedOrder("f6", "lunch", 5),
     FixedOrder("f7", "checkout", 0 - 1) >>

\* check-in first, bloods second, checkout last; the other four slots are free
FixedEnds ==
  << FixedOrder("f1", "checkin", 0), FixedOrder("f2", "bloods", 1),
     FixedOrder("f7", "checkout", 0 - 1) >>

\* conditions with ACTIVITY criteria
ActivityConditions(mri) ==
  { FixedEnds \o
      << Condition("a1", "consult", "BEFORE", "ACTIVITY", ActRef(mri), NoValue, NoValue),
         Condition("a2", "final", "AFTER", "ACTIVITY", ActRef(mri), NoValue, NoValue) >>,
    FixedEnds \o
      << Condition("a3", "final", "RIGHT_AFTER", "ACTIVITY", ActRef(mri), NoValue, NoValue),
         Condition("a4", "consult", "BETWEEN", "ACTIVITY", NoValue, ActRef("bloods"),
                   ActRef("lunch")),
         Condition("a5", "consult", "BEFORE", "ACTIVITY", ActRef(mri), NoValue, NoValue),
         Condition("a6", "lunch", "AFTER", "ACTIVITY", ActRef(mri), NoValue, NoValue) >> }

\* a clock time, minutes after 16:00, written "HH:MM" or "HH:MM:SS"
ClockHM(minutes) == HM(16 + minutes \div 60, minutes % 60)

ClockHMS(minutes) == HMS(16 + minutes \div 60, minutes % 60, 0)

Clock(minutes, seconds) == IF seconds THEN ClockHMS(minutes) ELSE ClockHM(minutes)

\* conditions with TIME criteria, the clock times written with or without seconds
TimeConditions(mri, seconds) ==
  { FixedEnds \o
      << Condition("t1", "consult", "BEFORE", "TIME", Clock(75, seconds), NoValue, NoValue),
         Condition("t2", "lunch", "AFTER", "TIME", Clock(80, seconds), NoValue, NoValue) >>,
    FixedEnds \o
      << Condition("t3", mri, "BETWEEN", "TIME", NoValue, Clock(60, seconds),
                   Clock(80, seconds)) >> }

\* WITHIN conditions: minutes after check-in, whether or not the condition also
\* names an activity in its between_values
WithinConditions(mri) ==
  { FixedEnds \o
      << Condition("w1", "consult", "WITHIN", "TIME", IntText(within[1]), within[2],
                   NoValue) >> :
      within \in {<<15, NoValue>>, <<20, ActRef("bloods")>>} }

\* fixed orders counted from the end
NegativeOrders(mri) ==
  { FixedEnds \o << FixedOrder("n1", "lunch", 0 - 2), FixedOrder("n2", mri, 0 - 4) >> }

\* an activity between two orders: the range start > order > end is empty, or has
\* the opposite convention, or holds two orders; with and without a criteria value
BetweenOrders(mri) ==
  { FixedEnds \o << Condition("o1", mri, "BETWEEN", "ORDER", value, IntText(range[1]),
                              IntText(range[2])) >> :
      value \in {NoValue, IntText(3)}, range \in {<<3, 3>>, <<2, 5>>, <<5, 2>>} }

Day(arrival, max_gap, simultaneous, elite, ultimate, rooms, upper, ci, condsO, condsU) ==
  Request(arrival, max_gap, 2, simultaneous, elite, ultimate,
          rooms \o OtherRooms(upper), ci, condsO, condsU)

\* one client, every family of conditions
OneClient ==
  LET families == [mri \in {"mriO", "mriU"} |->
                     {FixedAll(mri)} \cup ActivityConditions(mri)
                       \cup TimeConditions(mri, FALSE) \cup TimeConditions(mri, TRUE)
                       \cup WithinConditions(mri) \cup NegativeOrders(mri)
                       \cup BetweenOrders(mri)]
  IN  { Day(arrival, 5, TRUE, count, NoClients, SingleAndDouble, upper, 5, conditions,
            FixedAll("mriU")) :
          arrival \in ArrivalTimes, count \in {ClientCount(1, 0, 0, 0, 0)},
          upper \in {0, 1}, conditions \in families["mriO"] }

\* three single clients and the client rooms they may share
ThreeSingles ==
  { Day(arrival, 5, simultaneous, ClientCount(3, 0, 0, 0, 0), NoClients, client_rooms,
        upper, 15, FixedAll("mriO"), FixedAll("mriU")) :
      arrival \in ArrivalTimes, simultaneous \in {TRUE}, upper \in {0, 1},
      client_rooms \in {OneDouble, TwoDoubles} }

\* a single client and a couple
SingleAndCouple ==
  { Day(arrival, max_gap, TRUE, count, NoClients, client_rooms, upper, 5,
        FixedAll("mriO"), FixedAll("mriU")) :
      arrival \in ArrivalTimes, max_gap \in {5, 10}, upper \in {0, 1},
      count \in {ClientCount(1, 0, 1, 0, 0), ClientCount(0, 1, 0, 0, 1)},
      client_rooms \in {SingleAndDouble, TwoDoubles} }

\* one client of each assessment
BothAssessments ==
  { Day(arrival, 5, simultaneous, ClientCount(1, 0, 0, 0, 0), ClientCount(0, 1, 0, 0, 0),
        SingleAndDouble, upper, 5, FixedAll("mriO"), FixedAll("mriU")) :
      arrival \in ArrivalTimes, simultaneous \in BOOLEAN, upper \in {0, 1} }

\* one client whose check-in takes 20 minutes
LongCheckIn ==
  { Day(arrival, 5, TRUE, ClientCount(1, 0, 0, 0, 0), NoClients, SingleAndDouble, upper, 20,
        FixedAll("mriO"), FixedAll("mriU")) :
      arrival \in ArrivalTimes, upper \in {0, 1} }

\* a second MRI room on the ground floor, listed with the client rooms
SecondMriRoom == << Resource("M2", "OTHER", "MRI_1.5T_ROOM", 0) >>

\* two clients that both need an MRI and two MRI rooms to take them
TwoMriRooms ==
  { Day(arrival, 5, TRUE, elite, ultimate, OneDouble \o SecondMriRoom, upper, 5,
        FixedAll("mriO"), FixedAll("mriU")) :
      arrival \in ArrivalTimes, upper \in {0, 1},
      elite \in {ClientCount(1, 0, 0, 0, 0)},
      ultimate \in {ClientCount(1, 0, 0, 0, 0)} }

\* a third assessment, Core, next to one client of each of the other two
WithCore ==
  { [request EXCEPT !.assessments =
       @ @@ ("CORE" :> AssessmentRecord("CORE", ActivityList(5), FixedAll("mriO")))] :
      request \in BothAssessments }

\* the solver before its scenario_action setter is called
NoScenarioAction == SerializeScenarioAction(Event(HM(7, 0), 10, 0, FALSE, << >>, NoClients, NoClients))

\* the calls of Controller.retrieve_generated_scenario: the event names the rooms that
\* are out of order; the resources, activities and assessments are the retrieved ones
ControllerCalls ==
  { [entry |-> "controller",
     kwargs |-> Event(arrival, 5, 2, TRUE, out_of_order, ClientCount(1, 0, 0, 0, 0), NoClients),
     scenario_action |-> NoScenarioAction,
     resources |-> rooms,
     activities |-> ActivityList(5),
     activities_names_map |-> << >>,
     assessments |->
       [name \in {"OPTIMAL", "ULTIMATE", "CORE"} |->
          DbAssessment(name, name \in enabled,
                       IF name = "ULTIMATE" THEN FixedAll("mriU") ELSE FixedAll("mriO"))]] :
      arrival \in ArrivalTimes,
      out_of_order \in {<< >>, << "R1" >>, << "M1", "R2" >>},
      rooms \in {<< >>, SingleAndDouble \o OtherRooms(0)},
      enabled \in {{"OPTIMAL"}, {"ULTIMATE"}, {"OPTIMAL", "ULTIMATE"},
                   {"OPTIMAL", "ULTIMATE", "CORE"}} }

Requests ==
  ControllerCalls \cup
  { request \in OneClient \cup ThreeSingles \cup SingleAndCouple \cup BothAssessments
                  \cup TwoMriRooms \cup WithCore \cup LongCheckIn :
      NumClientsOf(request.scenario_action.data.client_elite)
        + NumClientsOf(request.scenario_action.data.client_ultimate) <= MaxClients }

Init ==
  /\ \E request \in Requests :
       /\ pc = IF request.entry = "controller" THEN "retrieve_generated_scenario"
               ELSE "assessments_setter"
       /\ kwargs = request.kwargs
       /\ scenario_action = request.scenario_action
       /\ resources = request.resources
       /\ activities = request.activities
       /\ assessments = request.assessments
       /\ activities_names_map = request.activities_names_map
  /\ clients_scenarios_map = << >>
  /\ schedules = << >>
  /\ num_floors = 0
  /\ constraints = {}
  /\ objective = None
  /\ status = None
  /\ solution = << >>
  /\ generated_scenarios = << >>
  /\ error = None

\* Controller.retrieve_generated_scenario up to the resources setter of the solver
RetrieveGeneratedScenario ==
  /\ pc = "retrieve_generated_scenario"
  /\ LET serialized == SerializeScenarioAction(kwargs)
         enabled == {name \in DOMAIN assessments : assessments[name].enabled}
     IN  /\ scenario_action' = serialized
         /\ activities_names_map' = ActivityNamesMap(activities)
         /\ assessments' =
              [name \in enabled |->
                 [assessments[name] EXCEPT
                    !.data.activities = Buckets(activities, enabled \ {name})]]
         /\ IF resources # << >> /\ "out_of_order_rooms" \notin DOMAIN serialized.data
            THEN /\ error' = "AttributeError: out_of_order_rooms"
                 /\ pc' = "raised"
                 /\ UNCHANGED resources
            ELSE /\ resources' =
                      SelectSeq(resources,
                                LAMBDA resource :
                                  resource.resource_id
                                    \notin Range(serialized.data.out_of_order_rooms))
                 /\ IF resources' = << >>
                    THEN /\ error' = "AssertionError: Invalid resources"
                         /\ pc' = "raised"
                    ELSE /\ pc' = "assessments_setter"
                         /\ UNCHANGED error
  /\ UNCHANGED <<kwargs, activities, clients_scenarios_map, schedules, num_floors,
                 constraints, objective, status, solution, generated_scenarios>>

\* Solver.assessments setter: sorted() asks the priority of every name
AssessmentsSetter ==
  /\ pc = "assessments_setter"
  /\ IF \E name \in DOMAIN assessments : PriorityRaises(name)
     THEN /\ error' = "AttributeError"
          /\ pc' = "raised"
     ELSE /\ pc' = "initialize_variables"
          /\ UNCHANGED error
  /\ UNCHANGED <<kwargs, scenario_action, resources, activities, assessments, activities_names_map,
                 clients_scenarios_map, schedules, num_floors, constraints, objective,
                 status, solution, generated_scenarios>>

\* Solver.__initialize_variables
InitializeVariables ==
  /\ pc = "initialize_variables"
  /\ \E clients \in ClientsOfAssessments(AssessmentNames, 0, 0) :
       /\ clients_scenarios_map' = ZeroBased(clients)
       /\ schedules' = [c \in 0..(Len(clients) - 1) |-> ScheduleOf(clients[c + 1])]
  /\ num_floors' = NumFloors(schedules')
  /\ assessments' =
       [name \in DOMAIN assessments |->
          [assessments[name] EXCEPT
             !.enabled = NumClientsOf(CountData(name)) # 0,
             !.data.num_clients = NumClientsOf(CountData(name))]]
  /\ pc' = "define_variables"
  /\ UNCHANGED <<kwargs, scenario_action, resources, activities, activities_names_map, constraints,
                 objective, status, solution, generated_scenarios, error>>

(***************************************************************************)
(* The CP-SAT model.  The variables of client c are, per slot uid: start,  *)
(* end, duration, floor, order and one Boolean per candidate room (rooms   *)
(* holds the rooms whose Boolean is true); per slot index: the first and   *)
(* last literals of the circuit; per ordered pair of slot indexes: the     *)
(* successor literal (precedes), the floor-change literal                  *)
(* (transfer_floors) and the start and end of the transfer interval.       *)
(* Slot index i of the model is activity_index i - 1 of the source.        *)
(* Each call of a helper that adds constraints is one record of the        *)
(* variable constraints; Sat gives its meaning on an assignment.           *)
(***************************************************************************)
Constraint(kind) ==
  [kind |-> kind, client |-> NoNumber, other_client |-> NoNumber, activity |-> None,
   other_activity |-> None, after_activity |-> None, room |-> None, value |-> 0,
   other_value |-> 0, clients |-> {}, allowed |-> {}]

Slots(c) == DOMAIN schedules[c]

\* __define_variables: the uid of a slot.  Every bucket of the model holds one
\* activity, so the set of ids of its modes has one element, which is the uid.
Uid(c, i) ==
  LET activity_uids == {schedules[c][i][k].id : k \in DOMAIN schedules[c][i]}
  IN  CHOOSE uid \in activity_uids : TRUE

Uids(c) == {Uid(c, i) : i \in Slots(c)}

SlotOf(c, uid) == CHOOSE i \in Slots(c) : Uid(c, i) = uid

\* __activities_uids_map.get(id, None)
activities_uids_map(id) ==
  IF \E c \in DOMAIN schedules : id \in Uids(c) THEN id ELSE None

start_activity_id == activities_names_map[CheckInName][1].activity_id

\* previous_couple_no when the loop reaches client c: the couple number of the
\* first partner of the latest couple before c
RECURSIVE PreviousCoupleNo(_)
PreviousCoupleNo(c) ==
  IF c = 0 THEN NoNumber
  ELSE LET before == PreviousCoupleNo(c - 1)
           client == clients_scenarios_map[c - 1]
       IN  IF client.type = "COUPLE"
              /\ (before = NoNumber \/ before # client.couple_client_no)
           THEN client.couple_client_no
           ELSE before

\* the client whose check-in start is previous_start when the loop reaches client c
PreviousStartClient(c) ==
  LET earlier == {p \in DOMAIN schedules : p < c /\ start_activity_id \in Uids(p)}
  IN  IF earlier = {} THEN NoNumber ELSE MaxOf(earlier)

\* a weakening of CheckInStartConstraint, to show what depends on it: only the first
\* check-in is constrained, the others get nothing but their variables
CheckInStartOfFirstOnly(c) ==
  IF PreviousStartClient(c) = NoNumber
  THEN [Constraint("start_is_zero") EXCEPT !.client = c, !.activity = start_activity_id]
  ELSE [Constraint("variables") EXCEPT !.client = c, !.activity = start_activity_id]

\* __define_variables, the constraint on the check-in start of client c
CheckInStartConstraint(c) ==
  LET client == clients_scenarios_map[c]
      previous == PreviousStartClient(c)
  IN  IF previous = NoNumber
      THEN [Constraint("start_is_zero") EXCEPT !.client = c,
                                               !.activity = start_activity_id]
      ELSE IF PreviousCoupleNo(c) = client.couple_client_no /\ client.type = "COUPLE"
      THEN [Constraint("start_equals_previous") EXCEPT
              !.client = c, !.other_client = previous, !.activity = start_activity_id]
      ELSE [Constraint("start_after_previous") EXCEPT
              !.client = c, !.other_client = previous, !.activity = start_activity_id]

\* the variables of a slot and the constraints created with them (lines 323-389)
VariablesConstraint(c, uid) ==
  [Constraint("variables") EXCEPT !.client = c, !.activity = uid]

\* Solver.__define_variables
DefineVariables ==
  /\ pc = "define_variables"
  /\ constraints' =
       constraints
       \cup UNION {{VariablesConstraint(c, uid) : uid \in Uids(c)} : c \in Clients}
       \cup {CheckInStartConstraint(c) : c \in {d \in Clients : start_activity_id \in Uids(d)}}
  /\ pc' = "apply_general_constraints"
  /\ UNCHANGED <<kwargs, scenario_action, resources, activities, assessments, activities_names_map,
                 clients_scenarios_map, schedules, num_floors, objective, status, solution,
                 generated_scenarios, error>>

(***************************************************************************)
(* Solver.__apply_general_constraints and the helpers it calls.            *)
(***************************************************************************)
\* the slots of client c with more than one mode: the ones that get room Booleans
\* registered in rooms_per_activity and clients_rooms_per_activity
MultiMode(c, i) == Len(schedules[c][i]) > 1

CandidateRooms(c, i) == {schedules[c][i][k].room_id : k \in DOMAIN schedules[c][i]}

\* the keys of intervals_per_room
RoomsWithIntervals ==
  UNION {UNION {CandidateRooms(c, i) : i \in Slots(c)} : c \in Clients}

\* (activity_id, room_id) in self.rooms_per_activity
InRoomsPerActivity(activity_id, room_id) ==
  \E c \in Clients : \E i \in Slots(c) :
    Uid(c, i) = activity_id /\ MultiMode(c, i) /\ room_id \in CandidateRooms(c, i)

apply_no_overlap_client_constraint(client_id) ==
  [Constraint("no_overlap_client") EXCEPT !.client = client_id]

apply_no_overlap_room_constraint(room_id) ==
  [Constraint("no_overlap_room") EXCEPT !.room = room_id]

apply_same_room_for_activities_constraint(client_id, activity_id, other_activity_id) ==
  [Constraint("same_room_for_activities") EXCEPT
     !.client = client_id, !.activity = activity_id, !.other_activity = other_activity_id]

\* a weakening of apply_same_room_for_clients_constraint, to show what depends on it:
\* the call adds nothing that is not added anyway
no_same_room_for_clients_constraint(client_id, other_client_id, activity_id) ==
  apply_no_overlap_client_constraint(client_id)

apply_same_room_for_clients_constraint(client_id, other_client_id, activity_id) ==
  [Constraint("same_room_for_clients") EXCEPT
     !.client = client_id, !.other_client = other_client_id, !.activity = activity_id]

\* a weakening of apply_maximum_capacity_constraint, to show what depends on it:
\* one client more than the capacity may select the room
one_more_than_capacity_constraint(room_id, activity_id, capacity) ==
  [Constraint("maximum_capacity") EXCEPT
     !.room = room_id, !.activity = activity_id, !.value = capacity + 1]

apply_maximum_capacity_constraint(room_id, activity_id, capacity) ==
  [Constraint("maximum_capacity") EXCEPT
     !.room = room_id, !.activity = activity_id, !.value = capacity]

apply_unique_room_for_activity_constraint(client_ids, room_id, activity_id) ==
  [Constraint("unique_room_for_activity") EXCEPT
     !.clients = client_ids, !.room = room_id, !.activity = activity_id]

\* one circuit with its arcs per client
apply_transfer_constraint(allowed_activities) ==
  {[Constraint("transfer") EXCEPT !.client = c, !.allowed = allowed_activities] :
     c \in Clients}

\* one bound per entry of ends_per_client
apply_maximum_time_constraint ==
  {[Constraint("maximum_time") EXCEPT !.client = c] : c \in Clients}

\* a flag that adds no constraint, whatever its value
ignore_simultaneous_transfers(generate) == {}

\* adds the no-overlap over all transfer intervals unless transfers may be simultaneous
apply_simultaneous_transfers_constraint(generate) ==
  IF ~generate THEN {Constraint("no_overlap_transfers")} ELSE {}

apply_gap_between_activity_constraint(activity_id, other_activity_id) ==
  [Constraint("gap_between_activity") EXCEPT
     !.activity = activity_id, !.other_activity = other_activity_id]

\* the capacity the room loop gives a room
RoomCapacity(room_id) ==
  LET room == ids_rooms_map(room_id)
  IN  IF room.room_type = "DOUBLE_ACCESSIBLE" \/ room.room_type = "DOUBLE_CLIENT_ROOM"
      THEN 2 ELSE 1

\* is_couple_with_previous_client when the client loop reaches client c
RECURSIVE IsCoupleWithPreviousClient(_)
IsCoupleWithPreviousClient(c) ==
  IF c = 0 THEN FALSE
  ELSE IF clients_scenarios_map[c - 1].type = "COUPLE"
  THEN ~IsCoupleWithPreviousClient(c - 1)
  ELSE IsCoupleWithPreviousClient(c - 1)

GeneralConstraints ==
  LET check_in_id == activities_uids_map(activities_names_map[CheckInName][1].activity_id)
      bloods_id == activities_uids_map(activities_names_map[BloodsName][1].activity_id)
      lunch_id == activities_names_map[LunchName][1].activity_id
      checkout_id == activities_names_map[CheckoutName][1].activity_id
      first_consult_id ==
        activities_uids_map(activities_names_map[FirstConsultName][1].activity_id)
      final_consult_id ==
        activities_uids_map(activities_names_map[FinalConsultName][1].activity_id)
      mri_elite_id ==
        IF assessments["OPTIMAL"].enabled
        THEN activities_uids_map(activities_names_map[MriOptimalName][1].activity_id)
        ELSE None
      mri_ultimate_id ==
        IF assessments["ULTIMATE"].enabled
        THEN activities_uids_map(activities_names_map[MriUltimateName][1].activity_id)
        ELSE None
      single_clients == {c \in Clients : clients_scenarios_map[c].type = "SINGLE"}
      per_client(c) ==
        (IF clients_scenarios_map[c].type = "COUPLE" /\ ~IsCoupleWithPreviousClient(c)
         THEN {apply_same_room_for_clients_constraint(c, c + 1, check_in_id)}
         ELSE {})
        \cup {apply_no_overlap_client_constraint(c),
              apply_same_room_for_activities_constraint(c, check_in_id, lunch_id),
              apply_same_room_for_activities_constraint(c, check_in_id, checkout_id),
              apply_same_room_for_activities_constraint(c, first_consult_id,
                                                        final_consult_id)}
      per_room(room_id) ==
        (IF RoomCapacity(room_id) = 1 THEN {apply_no_overlap_room_constraint(room_id)}
         ELSE {})
        \cup (IF InRoomsPerActivity(check_in_id, room_id)
              THEN {apply_maximum_capacity_constraint(room_id, check_in_id,
                                                      RoomCapacity(room_id)),
                    apply_unique_room_for_activity_constraint(single_clients, room_id,
                                                              check_in_id)}
              ELSE {})
        \cup (IF InRoomsPerActivity(first_consult_id, room_id)
              THEN {apply_maximum_capacity_constraint(room_id, first_consult_id, 3)}
              ELSE {})
        \cup (IF InRoomsPerActivity(final_consult_id, room_id)
              THEN {apply_maximum_capacity_constraint(room_id, final_consult_id, 3)}
              ELSE {})
  IN  UNION {per_client(c) : c \in Clients}
      \cup UNION {per_room(room_id) : room_id \in RoomsWithIntervals}
      \cup apply_transfer_constraint({<<check_in_id, bloods_id>>})
      \cup apply_maximum_time_constraint
      \cup apply_simultaneous_transfers_constraint(simultaneous_transfers)
      \cup (IF mri_elite_id # None \/ mri_ultimate_id # None
            THEN {apply_gap_between_activity_constraint(mri_elite_id, mri_ultimate_id)}
            ELSE {})

\* Solver.__apply_general_constraints
ApplyGeneralConstraints ==
  /\ pc = "apply_general_constraints"
  /\ constraints' = constraints \cup GeneralConstraints
  /\ pc' = "apply_activity_constraints"
  /\ UNCHANGED <<kwargs, scenario_action, resources, activities, assessments, activities_names_map,
                 clients_scenarios_map, schedules, num_floors, objective, status, solution,
                 generated_scenarios, error>>

(***************************************************************************)
(* Solver.__apply_activity_constraints: the condition DSL.  A value of the *)
(* Python code is modelled with its type, because the helpers fail on a    *)
(* value of the wrong type.                                                *)
(***************************************************************************)
PyNone == [type |-> "NoneType", n |-> 0, ref |-> None]

PyStr(ref) == [type |-> "str", n |-> 0, ref |-> ref]

PyInt(n) == [type |-> "int", n |-> n, ref |-> None]

PyTimedelta(seconds) == [type |-> "timedelta", n |-> seconds, ref |-> None]

\* the criteria value as received: a string or None
Received(text) == IF text.isnone THEN PyNone ELSE PyStr(text.ref)

\* text += ':00'
AppendSeconds(text) == [text EXCEPT !.colons = @ + 1, !.second = 0]

\* datetime.strptime(text, "%H:%M:%S") made a timedelta of its hour, minute and second
ClockTimedelta(text) == PyTimedelta(Timedelta(text.hour, text.minute, text.second))

\* a BETWEEN bound of TIME criteria: converted unless the text holds two colons
BetweenTimeValue(text) ==
  LET is_valid_format == text.colons = 2
  IN  IF ~is_valid_format THEN ClockTimedelta(AppendSeconds(text)) ELSE Received(text)

\* a single value of TIME criteria: "HH:MM" becomes a clock time, digits become minutes
TimeValue(text) ==
  LET time_format == text.colons
  IN  IF time_format = 1 THEN ClockTimedelta(AppendSeconds(text))
      ELSE IF time_format = 0 THEN PyTimedelta(Timedelta(0, text.int, 0))
      ELSE Received(text)

\* str(id) looked up in the uid map
UidValue(text) ==
  IF activities_uids_map(text.ref) = None THEN PyNone
  ELSE PyStr(activities_uids_map(text.ref))

\* int(text); None has no int
IntValue(text) == IF text.isnone THEN PyNone ELSE PyInt(text.int)

Outcome(err, cons) == [error |-> err, constraints |-> cons]

\* the values of a condition after the conversion by criteria type (lines 659-696)
ConvertedCriteria(condition) ==
  LET criteria == condition.criteria
      kind == criteria.criteria_type
      raw == [value |-> Received(criteria.value),
              start |-> Received(criteria.between_values.start),
              end |-> Received(criteria.between_values.end), error |-> None]
  IN  IF kind = "ACTIVITY"
      THEN IF condition.type = "BETWEEN"
           THEN IF UidValue(criteria.between_values.start) = PyNone
                   \/ UidValue(criteria.between_values.end) = PyNone
                THEN [raw EXCEPT !.error = "KeyError"]
                ELSE [raw EXCEPT !.start = UidValue(criteria.between_values.start),
                                 !.end = UidValue(criteria.between_values.end)]
           ELSE [raw EXCEPT !.value = UidValue(criteria.value)]
      ELSE IF kind = "TIME"
      THEN IF condition.type = "BETWEEN"
           THEN IF criteria.between_values.start.isnone \/ criteria.between_values.end.isnone
                THEN [raw EXCEPT !.error = "TypeError"]
                ELSE IF criteria.between_values.start.colons = 0
                        \/ criteria.between_values.end.colons = 0
                THEN [raw EXCEPT !.error = "ValueError"]
                ELSE [raw EXCEPT !.start = BetweenTimeValue(criteria.between_values.start),
                                 !.end = BetweenTimeValue(criteria.between_values.end)]
           ELSE IF criteria.value.isnone THEN [raw EXCEPT !.error = "TypeError"]
           ELSE [raw EXCEPT !.value = TimeValue(criteria.value)]
      ELSE IF kind = "ORDER"
      THEN IF condition.type = "WITHIN"
           THEN IF criteria.between_values.start.isnone \/ criteria.between_values.end.isnone
                THEN [raw EXCEPT !.error = "TypeError"]
                ELSE [raw EXCEPT !.start = IntValue(criteria.between_values.start),
                                 !.end = IntValue(criteria.between_values.end)]
           ELSE IF criteria.value.isnone THEN [raw EXCEPT !.error = "TypeError"]
           ELSE [raw EXCEPT !.value = IntValue(criteria.value)]
      ELSE raw

\* int((time - self.__time_start).total_seconds() // 60)
MinutesFromStart(time) == TotalMinutes(time.n - time_start)

\* an order below zero counts from the end of the client's schedule
OrderOf(client_id, order) ==
  IF order < 0 THEN order + Len(schedules[client_id]) ELSE order

HasVariable(client_id, activity) ==
  activity.type = "str" /\ activity.ref \in Uids(client_id)

apply_before_activity_constraint(client_id, activity_id, other_activity_id) ==
  [Constraint("before_activity") EXCEPT
     !.client = client_id, !.activity = activity_id, !.other_activity = other_activity_id]

apply_before_time_constraint(client_id, activity_id, time_before) ==
  [Constraint("before_time") EXCEPT
     !.client = client_id, !.activity = activity_id,
     !.value = MinutesFromStart(time_before)]

apply_before_order_constraint(client_id, activity_id, order) ==
  [Constraint("before_order") EXCEPT
     !.client = client_id, !.activity = activity_id, !.value = OrderOf(client_id, order)]

apply_after_activity_constraint(client_id, activity_id, other_activity_id) ==
  [Constraint("after_activity") EXCEPT
     !.client = client_id, !.activity = activity_id, !.other_activity = other_activity_id]

apply_after_time_constraint(client_id, activity_id, time_after) ==
  [Constraint("after_time") EXCEPT
     !.client = client_id, !.activity = activity_id,
     !.value = MinutesFromStart(time_after)]

apply_after_order_constraint(client_id, activity_id, order) ==
  [Constraint("after_order") EXCEPT
     !.client = client_id, !.activity = activity_id, !.value = OrderOf(client_id, order)]

\* a weakening of apply_right_after_activity_constraint, to show what depends on it:
\* the activity only has to come after the other one
not_right_after_activity_constraint(client_id, activity_id, other_activity_id) ==
  apply_after_activity_constraint(client_id, activity_id, other_activity_id)

apply_right_after_activity_constraint(client_id, activity_id, other_activity_id) ==
  [Constraint("right_after_activity") EXCEPT
     !.client = client_id, !.activity = activity_id, !.other_activity = other_activity_id]

apply_between_activities_constraint(client_id, activity_id, other_activity_id_before, other_activity_id_after) ==
  [Constraint("between_activities") EXCEPT
     !.client = client_id, !.activity = activity_id,
     !.other_activity = other_activity_id_before,
     !.after_activity = other_activity_id_after]

apply_between_times_constraint(client_id, activity_id, time_before, time_after) ==
  [Constraint("between_times") EXCEPT
     !.client = client_id, !.activity = activity_id,
     !.value = MinutesFromStart(time_before), !.other_value = MinutesFromStart(time_after)]

apply_between_orders_constraint(client_id, activity_id, order_before, order_after) ==
  [Constraint("between_orders") EXCEPT
     !.client = client_id, !.activity = activity_id,
     !.value = OrderOf(client_id, order_before),
     !.other_value = OrderOf(client_id, order_after)]

\* a variant of apply_within_after_activity_constraint, to show what depends on it:
\* the time is taken in seconds
within_seconds_after_activity_constraint(client_id, activity_id, other_activity_id, time_after) ==
  [Constraint("within_after_activity") EXCEPT
     !.client = client_id, !.activity = activity_id, !.other_activity = other_activity_id,
     !.value = time_after.n]

apply_within_after_activity_constraint(client_id, activity_id, other_activity_id, time_after) ==
  [Constraint("within_after_activity") EXCEPT
     !.client = client_id, !.activity = activity_id, !.other_activity = other_activity_id,
     !.value = TotalMinutes(time_after.n)]

apply_order_constraint(client_id, activity_id, order) ==
  [Constraint("order") EXCEPT
     !.client = client_id, !.activity = activity_id, !.value = OrderOf(client_id, order)]

\* the dispatch of one condition for one client (lines 699-740); a helper that
\* reads a variable the client does not have, or computes with a value of the
\* wrong type, raises
ApplyForClient(condition, values, client_id) ==
  LET condition_type == condition.type
      kind == condition.criteria.criteria_type
      activity_id == activities_uids_map(condition.activity_id)
      own == HasVariable(client_id, PyStr(activity_id))
      One(k) == Outcome(None, {k})
      Key == Outcome("KeyError", {})
      Type == Outcome("TypeError", {})
      Value == Outcome("ValueError", {})
  IN  IF condition_type \in {"BEFORE", "AFTER"}
      THEN IF kind = "ACTIVITY"
           THEN IF ~own \/ ~HasVariable(client_id, values.value) THEN Key
                ELSE IF condition_type = "BEFORE"
                THEN One(apply_before_activity_constraint(client_id, activity_id,
                                                          values.value.ref))
                ELSE One(apply_after_activity_constraint(client_id, activity_id,
                                                         values.value.ref))
           ELSE IF kind = "TIME"
           THEN IF values.value.type # "timedelta" THEN Type
                ELSE IF ~own THEN Key
                ELSE IF condition_type = "BEFORE"
                THEN One(apply_before_time_constraint(client_id, activity_id, values.value))
                ELSE One(apply_after_time_constraint(client_id, activity_id, values.value))
           ELSE IF kind = "ORDER"
           THEN IF ~own THEN Key
                ELSE IF condition_type = "BEFORE"
                THEN One(apply_before_order_constraint(client_id, activity_id,
                                                       values.value.n))
                ELSE One(apply_after_order_constraint(client_id, activity_id,
                                                      values.value.n))
           ELSE Value
      ELSE IF condition_type = "RIGHT_AFTER"
      THEN IF kind # "ACTIVITY" THEN Value
           ELSE IF ~own \/ ~HasVariable(client_id, values.value) THEN Key
           ELSE One(apply_right_after_activity_constraint(client_id, activity_id,
                                                          values.value.ref))
      ELSE IF condition_type = "BETWEEN"
      THEN IF kind = "ACTIVITY"
           THEN IF ~own \/ ~HasVariable(client_id, values.start)
                   \/ ~HasVariable(client_id, values.end) THEN Key
                ELSE One(apply_between_activities_constraint(
                           client_id, activity_id, values.start.ref, values.end.ref))
           ELSE IF kind = "TIME"
           THEN IF values.start.type # "timedelta" \/ values.end.type # "timedelta"
                THEN Type
                ELSE IF ~own THEN Key
                ELSE One(apply_between_times_constraint(client_id, activity_id,
                                                        values.start, values.end))
           ELSE IF kind = "ORDER"
           THEN IF values.start.type # "int" \/ values.end.type # "int" THEN Type
                ELSE IF ~own THEN Key
                ELSE One(apply_between_orders_constraint(client_id, activity_id,
                                                         values.start.n, values.end.n))
           ELSE Value
      ELSE IF condition_type = "WITHIN"
      THEN IF values.value.type # "timedelta" THEN Outcome("AttributeError", {})
           ELSE IF ~own \/ start_activity_id \notin Uids(client_id) THEN Key
           ELSE One(apply_within_after_activity_constraint(
                      client_id, activity_id, start_activity_id, values.value))
      ELSE IF condition_type = "IN_FIXED_ORDER_AS"
      THEN IF kind # "ORDER" THEN Value
           ELSE IF ~own THEN Key
           ELSE One(apply_order_constraint(client_id, activity_id, values.value.n))
      ELSE Value

\* the loop over the clients of the assessment: the first failure ends it
RECURSIVE ApplyForClients(_, _, _, _)
ApplyForClients(condition, values, client_id, last_client_id) ==
  IF client_id > last_client_id THEN Outcome(None, {})
  ELSE LET this == ApplyForClient(condition, values, client_id)
           rest == ApplyForClients(condition, values, client_id + 1, last_client_id)
       IN  IF this.error # None THEN this
           ELSE Outcome(rest.error, this.constraints \cup rest.constraints)

\* one condition of an assessment (lines 620-740)
ApplyCondition(condition, previous_num_clients, num_clients) ==
  LET criteria == condition.criteria
      values == ConvertedCriteria(condition)
  IN  IF condition.deleted \/ ~condition.mandatory \/ ~condition.enabled
      THEN Outcome(None, {})
      ELSE IF activities_uids_map(condition.activity_id) = None THEN Outcome(None, {})
      ELSE IF criteria.value.isnone
              /\ (criteria.between_values.start.isnone \/ criteria.between_values.end.isnone)
      THEN Outcome("ValueError", {})
      ELSE IF values.error # None THEN Outcome(values.error, {})
      ELSE ApplyForClients(condition, values, previous_num_clients,
                           previous_num_clients + num_clients - 1)

RECURSIVE ApplyConditions(_, _, _)
ApplyConditions(conditions, previous_num_clients, num_clients) ==
  IF conditions = << >> THEN Outcome(None, {})
  ELSE LET this == ApplyCondition(Head(conditions), previous_num_clients, num_clients)
           rest == ApplyConditions(Tail(conditions), previous_num_clients, num_clients)
       IN  IF this.error # None THEN this
           ELSE Outcome(rest.error, this.constraints \cup rest.constraints)

\* the loop over the assessments, in the order of the dict
RECURSIVE ApplyAssessments(_, _)
ApplyAssessments(names, previous_num_clients) ==
  IF names = << >> THEN Outcome(None, {})
  ELSE LET assessment == assessments[Head(names)]
       IN  IF ~assessment.enabled THEN ApplyAssessments(Tail(names), previous_num_clients)
           ELSE LET this == ApplyConditions(assessment.data.activity_conditions,
                                            previous_num_clients, assessment.data.num_clients)
                    rest == ApplyAssessments(
                              Tail(names), previous_num_clients + assessment.data.num_clients)
                IN  IF this.error # None THEN this
                    ELSE Outcome(rest.error, this.constraints \cup rest.constraints)

ApplyActivityConstraints ==
  /\ pc = "apply_activity_constraints"
  /\ LET outcome == ApplyAssessments(AssessmentNames, 0)
     IN  /\ constraints' = constraints \cup outcome.constraints
         /\ error' = outcome.error
         /\ pc' = IF outcome.error = None THEN "define_objective" ELSE "raised"
  /\ UNCHANGED <<kwargs, scenario_action, resources, activities, assessments, activities_names_map,
                 clients_scenarios_map, schedules, num_floors, objective, status, solution,
                 generated_scenarios>>

(***************************************************************************)
(* The meaning of the constraints on an assignment.  An assignment sol     *)
(* maps client ids to the values of their variables:                       *)
(*   start, end, duration, floor, order : uid -> integer                   *)
(*   rooms : uid -> the candidate rooms whose Boolean is true              *)
(*   circuit : the slots in the order of the arcs taken from node 0        *)
(*   transfer_starts, transfer_ends : <<i, j>> -> integer, for the arcs    *)
(*     taken between slots on different floors                             *)
(* Sat reads only the clients in DOMAIN sol, so that it also judges a      *)
(* partial assignment.                                                     *)
(***************************************************************************)
Grid == {t \in 0..horizon : t % time_max_interval = 0}

ModeOf(c, i, room_id) ==
  schedules[c][i][CHOOSE k \in DOMAIN schedules[c][i] :
                    schedules[c][i][k].room_id = room_id]

MinDuration(c, i) ==
  LET durations == {schedules[c][i][k].duration : k \in DOMAIN schedules[c][i]}
  IN  CHOOSE d \in durations : \A e \in durations : d <= e

MaxDuration(c, i) == MaxOf({schedules[c][i][k].duration : k \in DOMAIN schedules[c][i]})

\* model.AddAtMostOne and model.AddExactlyOne, on the set of the literals that are true
AddAtMostOne(true_literals) == Cardinality(true_literals) <= 1

\* a weakening of AddExactlyOne, to show what depends on it: model.AddAtLeastOne
AddAtLeastOne(true_literals) == Cardinality(true_literals) >= 1

AddExactlyOne(true_literals) == Cardinality(true_literals) = 1

\* model.AddNoOverlap, on the present intervals: records with key, start and end
AddNoOverlap(intervals) ==
  \A x, y \in intervals : x # y => (x.end <= y.start \/ y.end <= x.start)

Interval(key, start, end) == [key |-> key, start |-> start, end |-> end]

\* the room Booleans of a slot, its duration and its floor (lines 355-389)
RoomsOfSlot(c, i, rooms, duration, floor) ==
  IF MultiMode(c, i)
  THEN /\ AddExactlyOne(rooms)
       /\ \A room_id \in rooms :
            /\ ModeOf(c, i, room_id).duration = duration
            /\ ModeOf(c, i, room_id).room_floor = floor
  ELSE /\ rooms = CandidateRooms(c, i)
       /\ floor = schedules[c][i][Len(schedules[c][i])].room_floor

\* the variables of one slot (lines 323-337)
VariablesOfSlot(c, i, cs) ==
  LET uid == Uid(c, i)
  IN  /\ cs.start[uid] \in Grid
      /\ cs.end[uid] \in Grid
      /\ cs.duration[uid] \in MinDuration(c, i)..MaxDuration(c, i)
      /\ cs.end[uid] = cs.start[uid] + cs.duration[uid]
      /\ cs.floor[uid] \in 0..num_floors
      /\ cs.order[uid] \in 0..(Len(schedules[c]) - 1)
      /\ RoomsOfSlot(c, i, cs.rooms[uid], cs.duration[uid], cs.floor[uid])

\* the activity intervals of a client: intervals_per_client when the no-overlap is added
ActivityIntervals(c, cs) ==
  {Interval(<<c, uid>>, cs.start[uid], cs.end[uid]) : uid \in Uids(c)}

\* the present intervals of a room: intervals_per_room
RoomIntervals(room_id, sol) ==
  UNION {{Interval(<<c, uid>>, sol[c].start[uid], sol[c].end[uid]) :
            uid \in {u \in Uids(c) : room_id \in sol[c].rooms[u]}} : c \in DOMAIN sol}

\* room ids in the order sort() gives them
RoomOrder == <<"D1", "D2", "M1", "P1", "R1", "R2">>

SortedRooms(room_ids) == SelectSeq(RoomOrder, LAMBDA r : r \in room_ids)

\* a variant of SameRooms, to show what depends on it: the Booleans of two slots
\* with a choice of rooms are zipped without sorting the second list the same way
UnsortedRooms(candidates, rooms, other_candidates, other_rooms) ==
  LET mine == SortedRooms(candidates)
      theirs == SortedRooms(other_candidates)
      n == Min(Len(mine), Len(theirs))
  IN  \A p \in 1..n : (mine[p] \in rooms) <=> (theirs[n + 1 - p] \in other_rooms)

\* the Booleans of two slots, zipped after sorting by room id, are equal (lines 959-967)
SameRooms(candidates, rooms, other_candidates, other_rooms) ==
  LET mine == SortedRooms(candidates)
      theirs == SortedRooms(other_candidates)
  IN  \A p \in 1..Min(Len(mine), Len(theirs)) :
        (mine[p] \in rooms) <=> (theirs[p] \in other_rooms)

\* the arcs taken between slots: transfer_precedences
Precedes(cs) == {<<cs.circuit[p], cs.circuit[p + 1]>> : p \in 1..(Len(cs.circuit) - 1)}

\* the pairs whose floor literal is true: transfer_floors
TransferFloor(c, cs, i, j) == cs.floor[Uid(c, i)] # cs.floor[Uid(c, j)]

\* the transfers a client makes between floors
RealTransfers(c, cs) == {arc \in Precedes(cs) : TransferFloor(c, cs, arc[1], arc[2])}

\* a comparison that lets the successor of the first slot keep the order 0
OrderAfterUnlessFirst(order, other_order) == other_order > order \/ (order = 0 /\ other_order = 0)

\* line 535: on an arc taken, the order of the successor is above that of the slot
OrderAfter(order, other_order) == other_order > order

\* line 555: the pair may keep a gap for the second partner of a couple
MayKeepGap(c, allowed_activities, activity_id, other_activity_id) ==
  /\ <<activity_id, other_activity_id>> \in allowed_activities
  /\ PreviousCoupleNo(c) = clients_scenarios_map[c].couple_client_no
  /\ clients_scenarios_map[c].type = "COUPLE"

\* the starts a slot may take after its predecessor on the same floor (lines 555-559)
SameFloorStart(c, allowed_activities, activity_id, other_activity_id, end, start) ==
  IF MayKeepGap(c, allowed_activities, activity_id, other_activity_id)
  THEN start - end <= time_max_gap
  ELSE start = end

\* __apply_transfer_constraint for one client
TransferOfClient(c, cs, allowed_activities) ==
  LET n == Len(schedules[c])
  IN  /\ Len(cs.circuit) = n
      /\ Range(cs.circuit) = Slots(c)
      /\ DOMAIN cs.transfer_starts = RealTransfers(c, cs)
      /\ DOMAIN cs.transfer_ends = RealTransfers(c, cs)
      /\ \A arc \in Precedes(cs) :
           LET activity_id == Uid(c, arc[1])
               other_activity_id == Uid(c, arc[2])
           IN  /\ OrderAfter(cs.order[activity_id], cs.order[other_activity_id])
               /\ IF TransferFloor(c, cs, arc[1], arc[2])
                  THEN /\ cs.transfer_starts[arc] = cs.end[activity_id]
                       /\ cs.transfer_ends[arc] = cs.start[other_activity_id]
                       /\ cs.transfer_ends[arc] = cs.transfer_starts[arc] + time_transfer
                       /\ cs.transfer_starts[arc] \in Grid
                       /\ cs.transfer_ends[arc] \in Grid
                  ELSE SameFloorStart(c, allowed_activities, activity_id,
                                      other_activity_id, cs.end[activity_id],
                                      cs.start[other_activity_id])

\* the transfer intervals between floors, over all clients
TransferIntervals(sol) ==
  UNION {{Interval(<<c, arc>>, sol[c].transfer_starts[arc], sol[c].transfer_ends[arc]) :
            arc \in DOMAIN sol[c].transfer_starts} : c \in DOMAIN sol}

\* the arcs taken between slots of one floor: their transfer intervals are present
\* too, five minutes long, and start wherever the solver puts them
NumSameFloorArcs(sol) ==
  LET count == [c \in DOMAIN sol |-> Cardinality(Precedes(sol[c]) \ RealTransfers(c, sol[c]))]
  IN  SumOver(DOMAIN sol, count)

\* AddNoOverlap over transfer_intervals.values(): the transfers between floors are
\* disjoint and the other present intervals find as many free places on the grid
NoOverlapTransfers(sol) ==
  LET taken == {x.start : x \in TransferIntervals(sol)}
      places == {t \in Grid : t + time_transfer <= horizon /\ t \notin taken}
  IN  /\ AddNoOverlap(TransferIntervals(sol))
      /\ NumSameFloorArcs(sol) <= Cardinality(places)

\* the gap constraint without its two inner loops: a start differs from every end
StartsDifferFromEnds(activity_ids, sol) ==
  LET keys == UNION {{<<c, uid>> : uid \in Uids(c) \cap activity_ids} : c \in DOMAIN sol}
  IN  \A x, y \in keys : sol[x[1]].start[x[2]] # sol[y[1]].end[y[2]]

\* the gap constraint without its outer condition: the starts differ from each other
\* and so do the ends
StartsAndEndsDiffer(activity_ids, sol) ==
  LET keys == UNION {{<<c, uid>> : uid \in Uids(c) \cap activity_ids} : c \in DOMAIN sol}
  IN  \A x, y \in keys :
        x # y => /\ sol[x[1]].start[x[2]] # sol[y[1]].start[y[2]]
                 /\ sol[x[1]].end[x[2]] # sol[y[1]].end[y[2]]

\* __apply_gap_between_activity_constraint: every start differs from every end, the
\* starts differ from each other and so do the ends
GapBetweenActivity(activity_ids, sol) ==
  LET keys == UNION {{<<c, uid>> : uid \in Uids(c) \cap activity_ids} : c \in DOMAIN sol}
  IN  \A x, y \in keys :
        /\ sol[x[1]].start[x[2]] # sol[y[1]].end[y[2]]
        /\ x # y => /\ sol[x[1]].start[x[2]] # sol[y[1]].start[y[2]]
                    /\ sol[x[1]].end[x[2]] # sol[y[1]].end[y[2]]

\* the clients whose Boolean for the room is registered for the activity and true
ClientsInRoom(clients, room_id, activity_id, sol) ==
  {c \in clients \cap DOMAIN sol :
     /\ activity_id \in Uids(c)
     /\ MultiMode(c, SlotOf(c, activity_id))
     /\ room_id \in sol[c].rooms[activity_id]}

\* the meaning of one constraint record
Sat(k, sol) ==
  LET c == k.client
      a == k.activity
      b == k.other_activity
      here == c \in DOMAIN sol
      cs == sol[c]
  IN  CASE k.kind = "variables" -> here => VariablesOfSlot(c, SlotOf(c, a), cs)
        [] k.kind = "start_is_zero" -> here => cs.start[a] = 0
        [] k.kind = "start_equals_previous" ->
             (here /\ k.other_client \in DOMAIN sol)
               => cs.start[a] = sol[k.other_client].start[a]
        [] k.kind = "start_after_previous" ->
             (here /\ k.other_client \in DOMAIN sol)
               => cs.start[a] > sol[k.other_client].start[a]
        [] k.kind = "no_overlap_client" -> here => AddNoOverlap(ActivityIntervals(c, cs))
        [] k.kind = "no_overlap_room" -> AddNoOverlap(RoomIntervals(k.room, sol))
        [] k.kind = "same_room_for_activities" ->
             here => SameRooms(CandidateRooms(c, SlotOf(c, a)), cs.rooms[a],
                               CandidateRooms(c, SlotOf(c, b)), cs.rooms[b])
        [] k.kind = "same_room_for_clients" ->
             (here /\ k.other_client \in DOMAIN sol)
               => SameRooms(CandidateRooms(c, SlotOf(c, a)), cs.rooms[a],
                            CandidateRooms(k.other_client, SlotOf(k.other_client, a)),
                            sol[k.other_client].rooms[a])
        [] k.kind = "maximum_capacity" ->
             Cardinality(ClientsInRoom(Clients, k.room, a, sol)) <= k.value
        [] k.kind = "unique_room_for_activity" ->
             AddAtMostOne(ClientsInRoom(k.clients, k.room, a, sol))
        [] k.kind = "transfer" -> here => TransferOfClient(c, cs, k.allowed)
        [] k.kind = "maximum_time" -> here => cs.end[Uid(c, Len(schedules[c]))] <= horizon
        [] k.kind = "no_overlap_transfers" -> NoOverlapTransfers(sol)
        [] k.kind = "gap_between_activity" -> GapBetweenActivity({a, b} \ {None}, sol)
        [] k.kind = "before_activity" -> here => cs.end[a] <= cs.start[b]
        [] k.kind = "before_time" -> here => cs.end[a] <= k.value
        [] k.kind = "before_order" -> here => cs.order[a] < k.value
        [] k.kind = "after_activity" -> here => cs.start[a] >= cs.end[b]
        [] k.kind = "after_time" -> here => cs.start[a] >= k.value
        [] k.kind = "after_order" -> here => cs.order[a] > k.value
        [] k.kind = "right_after_activity" -> here => cs.start[a] = cs.end[b]
        [] k.kind = "between_activities" ->
             here => /\ cs.start[a] >= cs.end[b]
                     /\ cs.end[a] <= cs.start[k.after_activity]
        [] k.kind = "between_times" ->
             here => /\ cs.start[a] >= k.value
                     /\ cs.end[a] <= k.other_value
        [] k.kind = "between_orders" ->
             here => /\ cs.order[a] > k.other_value
                     /\ cs.order[a] < k.value
        [] k.kind = "within_after_activity" ->
             here => /\ cs.start[a] >= cs.end[b]
                     /\ cs.start[a] <= cs.start[b] + k.value
        [] k.kind = "order" -> here => cs.order[a] = k.value

\* an assignment of some of the clients that no constraint rules out
Feasible(sol) == \A k \in constraints : Sat(k, sol)

(***************************************************************************)
(* The assignments of the model.  The candidates of a client are built     *)
(* along its circuit: each next slot takes a room choice, the next order   *)
(* and a start that the arc from its predecessor allows; Feasible then     *)
(* keeps the candidates that satisfy every constraint.                     *)
(***************************************************************************)
NoAssignment ==
  [circuit |-> << >>, start |-> << >>, end |-> << >>, duration |-> << >>,
   floor |-> << >>, order |-> << >>, rooms |-> << >>,
   transfer_starts |-> << >>, transfer_ends |-> << >>]

\* the room Booleans, duration and floor a slot can take
SlotModes(c, i) ==
  {mode \in [rooms : SUBSET CandidateRooms(c, i),
             duration : MinDuration(c, i)..MaxDuration(c, i),
             floor : 0..num_floors] :
     RoomsOfSlot(c, i, mode.rooms, mode.duration, mode.floor)}

\* the constraints on the variables of one client alone, and the others
OfClient(c) == {k \in constraints : k.client = c /\ k.other_client = NoNumber}

\* the constraints between the variables of two clients, and those over all clients
BetweenClients == {k \in constraints : k.other_client # NoNumber}

OverClients == {k \in constraints : k.client = NoNumber}

\* the activities whose variables a constraint on one client reads
Reads(k) == {k.activity, k.other_activity, k.after_activity} \ {None}

\* the constraints that read the named variables only
NamedKinds ==
  {"start_is_zero", "same_room_for_activities", "order", "before_activity", "before_time",
   "before_order", "after_activity", "after_time", "after_order", "right_after_activity",
   "between_activities", "between_times", "between_orders", "within_after_activity"}

OrderKinds == {"order", "before_order", "after_order", "between_orders"}

\* the orders left to a slot placed after `placed` slots of the circuit: above the
\* order of its predecessor, with room for the slots still to come
Orders(c, mine, cs, uid) ==
  LET n == Len(schedules[c])
      placed == Len(cs.circuit)
      after == IF placed = 0 THEN 0 - 1 ELSE cs.order[Uid(c, cs.circuit[placed])]
  IN  {o \in 0..(n - 1) :
         /\ OrderAfter(after, o)
         /\ o + (n - placed - 1) <= n - 1
         /\ \A k \in mine :
              (k.kind \in OrderKinds /\ k.activity = uid)
                => Sat(k, c :> [order |-> uid :> o])}

\* the starts of a slot given the arc from its predecessor
Starts(c, cs, allowed_activities, uid, mode) ==
  LET placed == Len(cs.circuit)
      previous == Uid(c, cs.circuit[placed])
  IN  {t \in Grid :
         /\ t + mode.duration <= horizon
         /\ placed > 0 =>
              IF cs.floor[previous] # mode.floor
              THEN t = cs.end[previous] + time_transfer
              ELSE SameFloorStart(c, allowed_activities, previous, uid,
                                  cs.end[previous], t)}

\* the candidate with slot i placed next
Placed(c, cs, i, mode, o, t) ==
  LET uid == Uid(c, i)
      placed == Len(cs.circuit)
      arc == <<cs.circuit[placed], i>>
      transfer == placed > 0 /\ cs.floor[Uid(c, cs.circuit[placed])] # mode.floor
  IN  [circuit |-> Append(cs.circuit, i),
       start |-> cs.start @@ (uid :> t),
       end |-> cs.end @@ (uid :> t + mode.duration),
       duration |-> cs.duration @@ (uid :> mode.duration),
       floor |-> cs.floor @@ (uid :> mode.floor),
       order |-> cs.order @@ (uid :> o),
       rooms |-> cs.rooms @@ (uid :> mode.rooms),
       transfer_starts |->
         IF transfer THEN cs.transfer_starts @@ (arc :> cs.end[Uid(c, arc[1])])
         ELSE cs.transfer_starts,
       transfer_ends |->
         IF transfer THEN cs.transfer_ends @@ (arc :> t) ELSE cs.transfer_ends]

\* no constraint whose variables are all placed, the last of them being those of
\* uid, rules the candidate out
StillFeasible(c, mine, cs, uid) ==
  \A k \in mine :
    (k.kind \in NamedKinds /\ uid \in Reads(k) /\ Reads(k) \subseteq DOMAIN cs.start)
      => Sat(k, c :> cs)

RECURSIVE Circuits(_, _, _, _)
Circuits(c, mine, allowed_activities, cs) ==
  IF Len(cs.circuit) = Len(schedules[c]) THEN {cs}
  ELSE UNION {UNION {UNION {UNION {
         LET next == Placed(c, cs, i, mode, o, t)
         IN  IF StillFeasible(c, mine, next, Uid(c, i))
             THEN Circuits(c, mine, allowed_activities, next)
             ELSE {} :
           t \in Starts(c, cs, allowed_activities, Uid(c, i), mode)} :
           mode \in SlotModes(c, i)} :
           o \in Orders(c, mine, cs, Uid(c, i))} :
           i \in Slots(c) \ Range(cs.circuit)}

\* the pairs the transfer constraint of the client was given
AllowedActivities(mine) == UNION {k.allowed : k \in {x \in mine : x.kind = "transfer"}}

\* the assignments of the variables of one client that its own constraints allow
ClientAssignments(c) ==
  LET mine == OfClient(c)
  IN  {cs \in Circuits(c, mine, AllowedActivities(mine), NoAssignment) :
         \A k \in mine : Sat(k, c :> cs)}

\* the assignments of clients 0..c-1 extended by the assignments of client c
Extended(partial, mine, c, between, over) ==
  UNION {{sol @@ (c :> cs) :
            cs \in {x \in mine :
                      /\ \A k \in between : Sat(k, sol @@ (c :> x))
                      /\ \A k \in over : Sat(k, sol @@ (c :> x))}} :
           sol \in partial}

\* the assignments of clients 0..c that satisfy every constraint among them
RECURSIVE Assignments(_, _, _)
Assignments(between, over, c) ==
  IF c < 0 THEN {<< >>}
  ELSE Extended(Assignments(between, over, c - 1), ClientAssignments(c), c, between, over)

\* every assignment the solver may return: the ones that satisfy every constraint
Solutions == Assignments(BetweenClients, OverClients, Cardinality(Clients) - 1)

(***************************************************************************)
(* Solver.__define_objective and the call of the solver.                   *)
(***************************************************************************)
\* Solver.__define_objective: generate always asks for the default mode
DefineObjective ==
  /\ pc = "define_objective"
  /\ Clients # {}
  /\ objective' = "GAPS"
  /\ pc' = "solve"
  /\ UNCHANGED <<kwargs, scenario_action, resources, activities, assessments, activities_names_map,
                 clients_scenarios_map, schedules, num_floors, constraints, status, solution,
                 generated_scenarios, error>>

\* existing_gap is forced to 1 on an arc taken inside one floor whose gap is not zero
\* and at most time_max_gap (lines 565-575); every other gap Boolean may be 0
ExistingGaps(c, cs) ==
  {arc \in Precedes(cs) \ RealTransfers(c, cs) :
     LET difference == cs.start[Uid(c, arc[2])] - cs.end[Uid(c, arc[1])]
     IN  difference <= time_max_gap /\ difference # 0}

\* existing_gap is forced to 0 on an arc taken inside one floor whose gap is zero
\* (line 575)
ZeroGaps(c, cs) ==
  {arc \in Precedes(cs) \ RealTransfers(c, cs) :
     cs.start[Uid(c, arc[2])] - cs.end[Uid(c, arc[1])] = 0}

\* the pairs of slots of a client, one existing_gap each (lines 530-577), whose
\* Boolean no constraint fixes: the pair is no arc, or changes floor, or is too far
FreeGaps(c, cs) ==
  {pair \in Slots(c) \X Slots(c) : pair[1] # pair[2]}
    \ (ExistingGaps(c, cs) \cup ZeroGaps(c, cs))

\* the sets of at most n of the keys
RECURSIVE SetsOfAtMost(_, _)
SetsOfAtMost(keys, n) ==
  IF n = 0 THEN {{}}
  ELSE LET smaller == SetsOfAtMost(keys, n - 1)
       IN  smaller \cup UNION {{e \cup {key} : key \in keys} : e \in smaller}

\* the true Booleans of self.gaps in the assignments CP-SAT may return for sol, as
\* triples of client and pair: the forced ones and at most MaxExtraGaps free ones
\* among the first MaxGapSlot slots
GapAssignments(sol) ==
  LET forced == UNION {{<<c, arc[1], arc[2]>> : arc \in ExistingGaps(c, sol[c])} :
                         c \in DOMAIN sol}
      free == UNION {{<<c, pair[1], pair[2]>> :
                        pair \in FreeGaps(c, sol[c]) \cap ((1..MaxGapSlot) \X (1..MaxGapSlot))} :
                       c \in DOMAIN sol}
  IN  {forced \cup extra : extra \in SetsOfAtMost(free, MaxExtraGaps)}

\* a minimization that leaves the free Booleans as they are
EveryGaps(choices) == choices

\* the objective at its least: no free Boolean of self.gaps is true
LeastGaps(choices) ==
  {gaps \in choices : \A other \in choices : Cardinality(gaps) <= Cardinality(other)}

\* the least value of sum(self.gaps) + sum(self.starts_per_client) on an assignment
ObjectiveValue(sol) ==
  LET gaps == [c \in DOMAIN sol |-> Cardinality(ExistingGaps(c, sol[c]))]
      starts == [c \in DOMAIN sol |->
                   IF start_activity_id \in Uids(c) THEN sol[c].start[start_activity_id]
                   ELSE 0]
  IN  SumOver(DOMAIN sol, gaps) + SumOver(DOMAIN sol, starts)

\* a status check that lets every answer of the solver through
EveryStatus == {"OPTIMAL", "FEASIBLE", "INFEASIBLE", "UNKNOWN"}

Accepted == {"OPTIMAL", "FEASIBLE"}

\* a proof of optimality that every assignment passes
EverySolution(solutions) == solutions

\* the assignments of least objective value
Optimal(solutions) ==
  LET value == [sol \in solutions |-> ObjectiveValue(sol)]
      least == MinOf({value[sol] : sol \in solutions})
  IN  {sol \in solutions : value[sol] = least}

\* what CpSolver.Solve may answer: an assignment that is feasible, or proved optimal;
\* a proof that there is none; or nothing within the time limit
SolverAnswers(solutions) ==
  UNION {{[status |-> "FEASIBLE", solution |-> sol, gaps |-> gaps] :
            gaps \in GapAssignments(sol)} : sol \in solutions}
    \cup UNION {{[status |-> "OPTIMAL", solution |-> sol, gaps |-> gaps] :
                   gaps \in LeastGaps(GapAssignments(sol))} : sol \in Optimal(solutions)}
    \cup (IF solutions = {}
          THEN {[status |-> "INFEASIBLE", solution |-> << >>, gaps |-> {}]} ELSE {})
    \cup {[status |-> "UNKNOWN", solution |-> << >>, gaps |-> {}]}

\* CpSolver.Solve and the check of its status (lines 1201-1213)
Solve ==
  /\ pc = "solve"
  /\ \E answer \in SolverAnswers(Solutions) :
       /\ status' = answer.status
       /\ solution' = answer.solution
  /\ pc' = IF status' \in Accepted THEN "decode" ELSE "raised"
  /\ error' = IF status' \in Accepted THEN None ELSE "ValueError"
  /\ UNCHANGED <<kwargs, scenario_action, resources, activities, assessments, activities_names_map,
                 clients_scenarios_map, schedules, num_floors, constraints, objective,
                 generated_scenarios>>

(***************************************************************************)
(* The decoder (lines 1215-1254).                                          *)
(***************************************************************************)
\* list.sort(key): the positions of a list in the order a stable sort by the keys
\* gives, by insertion from the left
RECURSIVE SortedPositions(_)
SortedPositions(keys) ==
  IF keys = << >> THEN << >>
  ELSE LET front == SortedPositions(SubSeq(keys, 1, Len(keys) - 1))
           keep == Cardinality({p \in DOMAIN front : keys[front[p]] <= keys[Len(keys)]})
       IN  SubSeq(front, 1, keep) \o << Len(keys) >> \o SubSeq(front, keep + 1, Len(front))

SortedBy(entries, keys) ==
  LET positions == SortedPositions(keys)
  IN  [p \in DOMAIN entries |-> entries[positions[p]]]

ids_activities_map(activity_id) ==
  LET all == UNION {Range(activities_names_map[name]) : name \in DOMAIN activities_names_map}
  IN  CHOOSE activity \in all : activity.activity_id = activity_id

\* the emitted activity with its start counted in steps of ten minutes
TenMinuteActivity(activity, room_id, start) ==
  [activity_id |-> activity.activity_id, activity_name |-> activity.activity_name,
   time_allocations |-> activity.time_allocations,
   is_gender_time_allocated |-> activity.is_gender_time_allocated,
   assigned_room |-> room_id, assigned_time |-> start \div 10]

ScenarioActivity(activity, room_id, start) ==
  [activity_id |-> activity.activity_id, activity_name |-> activity.activity_name,
   time_allocations |-> activity.time_allocations,
   is_gender_time_allocated |-> activity.is_gender_time_allocated,
   assigned_room |-> room_id, assigned_time |-> start \div 5]

TransferActivity(transfer_start) ==
  [activity_id |-> None, activity_name |-> "Transfer",
   time_allocations |-> [default_time |-> 5, male |-> NoNumber, female |-> NoNumber],
   is_gender_time_allocated |-> FALSE,
   assigned_room |-> None, assigned_time |-> transfer_start \div 5]

\* the keys of transfer_starts of a client, in the order the dict holds them
TransferKeys(c) ==
  LET n == Len(schedules[c])
      all == [p \in 1..(n * n) |-> <<((p - 1) \div n) + 1, ((p - 1) % n) + 1>>]
  IN  SelectSeq(all, LAMBDA arc : arc[1] # arc[2])

\* the entries of one client; pop gives the room the set of true Booleans yields
ClientActivities(c, cs, pop) ==
  LET slots == [i \in 1..Len(schedules[c]) |->
                  [uid |-> Uid(c, i), start |-> cs.start[Uid(c, i)]]]
      sorted_slots == SortedBy(slots, [i \in DOMAIN slots |-> slots[i].start])
      emitted == [p \in DOMAIN sorted_slots |->
                    ScenarioActivity(ids_activities_map(sorted_slots[p].uid),
                                     pop[sorted_slots[p].uid], sorted_slots[p].start)]
      keys == SelectSeq(TransferKeys(c),
                        LAMBDA arc : arc \in Precedes(cs)
                                       /\ TransferFloor(c, cs, arc[1], arc[2]))
      transfers == [p \in DOMAIN keys |-> TransferActivity(cs.transfer_starts[keys[p]])]
      all == emitted \o transfers
  IN  SortedBy(all, [p \in DOMAIN all |-> all[p].assigned_time])

\* set(...).pop() for every slot: each way of taking one room out of each set
RECURSIVE Pops(_, _)
Pops(uids, rooms) ==
  IF uids = {} THEN {<< >>}
  ELSE LET uid == CHOOSE u \in uids : TRUE
       IN  {(uid :> room_id) @@ rest :
              room_id \in rooms[uid], rest \in Pops(uids \ {uid}, rooms)}

RECURSIVE PopsOfClients(_)
PopsOfClients(clients) ==
  IF clients = {} THEN {<< >>}
  ELSE LET c == CHOOSE d \in clients : TRUE
       IN  {(c :> pop) @@ rest :
              pop \in Pops(Uids(c), solution[c].rooms),
              rest \in PopsOfClients(clients \ {c})}

Decode ==
  /\ pc = "decode"
  /\ IF \E c \in Clients : \E uid \in Uids(c) : solution[c].rooms[uid] = {}
     THEN /\ error' = "KeyError"
          /\ pc' = "raised"
          /\ UNCHANGED generated_scenarios
     ELSE /\ \E pop \in PopsOfClients(Clients) :
               generated_scenarios' =
                 [c \in Clients |->
                    [client_number |-> clients_scenarios_map[c].client_number,
                     client_type |-> clients_scenarios_map[c].client_type,
                     type |-> clients_scenarios_map[c].type,
                     sex |-> clients_scenarios_map[c].sex,
                     single_client_no |-> clients_scenarios_map[c].single_client_no,
                     couple_client_no |-> clients_scenarios_map[c].couple_client_no,
                     activities |-> ClientActivities(c, solution[c], pop[c])]]
          /\ pc' = "done"
          /\ UNCHANGED error
  /\ UNCHANGED <<kwargs, scenario_action, resources, activities, assessments, activities_names_map,
                 clients_scenarios_map, schedules, num_floors, constraints, objective, status,
                 solution>>

Next ==
  \/ RetrieveGeneratedScenario
  \/ AssessmentsSetter
  \/ InitializeVariables
  \/ DefineVariables
  \/ ApplyGeneralConstraints
  \/ ApplyActivityConstraints
  \/ DefineObjective
  \/ Solve
  \/ Decode

Spec == Init /\ [][Next]_vars

(***************************************************************************)
(* The returned schedule, read the way a caller reads it: assigned_time is *)
(* a count of five-minute steps from time_start and an entry lasts what    *)
(* its time_allocations say for the client's sex.                          *)
(***************************************************************************)
Returned == pc = "done"

EntriesOf(c) == generated_scenarios[c].activities

IsTransfer(entry) == entry.activity_name = TransferActivity(0).activity_name

EntryStart(entry) == entry.assigned_time * time_max_interval

EntryEnd(c, entry) == EntryStart(entry) + DurationFor(entry, generated_scenarios[c].sex)

\* the ScenarioActivity entries of a client in the emitted order, Transfers left out
ActivityEntries(c) == SelectSeq(EntriesOf(c), LAMBDA entry : ~IsTransfer(entry))

TransferEntries(c) == SelectSeq(EntriesOf(c), LAMBDA entry : IsTransfer(entry))

\* the entry emitted for an activity of a client
EntryOf(c, activity_id) ==
  LET entries == ActivityEntries(c)
  IN  entries[CHOOSE p \in DOMAIN entries : entries[p].activity_id = activity_id]

EntryFloor(entry) == ids_rooms_map(entry.assigned_room).location

Overlap(start, end, other_start, other_end) == start < other_end /\ other_start < end

(***************************************************************************)
(* C1: in every returned schedule, for every client, the intervals         *)
(* [start, end) of the client's activities and Transfer entries are        *)
(* pairwise disjoint.                                                      *)
(***************************************************************************)
ClientIntervalsDisjoint ==
  Returned =>
    \A c \in DOMAIN generated_scenarios :
      \A p, q \in DOMAIN EntriesOf(c) :
        p < q => ~Overlap(EntryStart(EntriesOf(c)[p]), EntryEnd(c, EntriesOf(c)[p]),
                          EntryStart(EntriesOf(c)[q]), EntryEnd(c, EntriesOf(c)[q]))

(***************************************************************************)
(* C2: in every returned schedule, at every instant and for every room,    *)
(* the clients whose activity in the room contains the instant are at most *)
(* the room's capacity: 1, or 2 for DOUBLE_CLIENT_ROOM and                 *)
(* DOUBLE_ACCESSIBLE rooms; a doctor room holds at most 3 clients at once. *)
(* This includes the slots with exactly one candidate room.                *)
(***************************************************************************)
ClientsInRoomAt(room_id, instant) ==
  {c \in DOMAIN generated_scenarios :
     \E p \in DOMAIN ActivityEntries(c) :
       LET entry == ActivityEntries(c)[p]
       IN  /\ entry.assigned_room = room_id
           /\ EntryStart(entry) <= instant
           /\ instant < EntryEnd(c, entry)}

RoomCapacityHolds ==
  Returned =>
    \A room_id \in RoomsWithIntervals : \A instant \in 0..horizon :
      /\ Cardinality(ClientsInRoomAt(room_id, instant)) <= RoomCapacity(room_id)
      /\ ids_rooms_map(room_id).room_type = "DOCTOR_ROOM"
           => Cardinality(ClientsInRoomAt(room_id, instant)) <= 3

(***************************************************************************)
(* C3: for every client and every slot, exactly one candidate room of the  *)
(* slot is selected in a solved assignment, and the decoder emits exactly  *)
(* one ScenarioActivity for the slot, carrying that room.                  *)
(***************************************************************************)
ExactlyOneRoomPerSlot ==
  /\ pc \in {"decode", "done"} =>
       \A c \in Clients : \A i \in Slots(c) :
         /\ Cardinality(solution[c].rooms[Uid(c, i)]) = 1
         /\ solution[c].rooms[Uid(c, i)] \subseteq CandidateRooms(c, i)
  /\ Returned =>
       \A c \in Clients : \A i \in Slots(c) :
         /\ Cardinality({p \in DOMAIN EntriesOf(c) :
                           EntriesOf(c)[p].activity_id = Uid(c, i)}) = 1
         /\ solution[c].rooms[Uid(c, i)] = {EntryOf(c, Uid(c, i)).assigned_room}

\* a returned schedule with a slot of several candidate rooms that got another
\* room than the first one offered
SlotWithChosenRoom ==
  /\ Returned
  /\ \E c \in Clients : \E i \in Slots(c) :
       /\ MultiMode(c, i)
       /\ EntryOf(c, Uid(c, i)).assigned_room # schedules[c][i][1].room_id

(***************************************************************************)
(* C4: in every returned schedule, for every client, check-in, lunch and   *)
(* checkout have the same room, and the first consultation and the final   *)
(* consultation have the same room.                                        *)
(***************************************************************************)
IdOf(name) == activities_names_map[name][1].activity_id

RoomOf(c, name) == EntryOf(c, IdOf(name)).assigned_room

SameRoomsForActivities ==
  Returned =>
    \A c \in Clients :
      /\ RoomOf(c, CheckInName) = RoomOf(c, LunchName)
      /\ RoomOf(c, CheckInName) = RoomOf(c, CheckoutName)
      /\ RoomOf(c, FirstConsultName) = RoomOf(c, FinalConsultName)

\* a returned schedule in which a client had the choice of client rooms and of
\* doctor rooms, and got the last offered of each
ClientWithChosenRooms ==
  /\ Returned
  /\ \E c \in Clients :
       LET check_in == schedules[c][SlotOf(c, IdOf(CheckInName))]
           consult == schedules[c][SlotOf(c, IdOf(FirstConsultName))]
       IN  /\ Len(check_in) > 1
           /\ Len(consult) > 1
           /\ RoomOf(c, CheckInName) = check_in[Len(check_in)].room_id
           /\ RoomOf(c, FinalConsultName) = consult[Len(consult)].room_id

(***************************************************************************)
(* C5: in every returned schedule the two partners of a couple have        *)
(* consecutive client numbers and the same coupleClientNo, the same        *)
(* check-in room and the same check-in start, and neither is assigned a    *)
(* SINGLE_CLIENT_ROOM for any activity.                                    *)
(***************************************************************************)
PartnersOf(c) ==
  {d \in DOMAIN generated_scenarios :
     /\ d # c
     /\ generated_scenarios[d].type = "COUPLE"
     /\ generated_scenarios[d].couple_client_no = generated_scenarios[c].couple_client_no}

TransferBetween(c, entry, other_entry) ==
  \E p \in DOMAIN TransferEntries(c) :
    /\ EntryStart(TransferEntries(c)[p]) = EntryEnd(c, entry)
    /\ EntryEnd(c, TransferEntries(c)[p]) = EntryStart(other_entry)

TransfersBetweenFloors ==
  Returned =>
    \A c \in Clients :
      LET entries == ActivityEntries(c)
      IN  /\ \A p \in 1..(Len(entries) - 1) :
               TransferBetween(c, entries[p], entries[p + 1])
                 <=> EntryFloor(entries[p]) # EntryFloor(entries[p + 1])
          /\ \A q \in DOMAIN TransferEntries(c) :
               /\ EntryEnd(c, TransferEntries(c)[q]) - EntryStart(TransferEntries(c)[q]) = 5
               /\ \E p \in 1..(Len(entries) - 1) :
                    /\ EntryStart(TransferEntries(c)[q]) = EntryEnd(c, entries[p])
                    /\ EntryEnd(c, TransferEntries(c)[q]) = EntryStart(entries[p + 1])

(***************************************************************************)
(* The conditions that apply to a client: the mandatory, enabled,          *)
(* non-deleted conditions of the client's assessment, when it is enabled.  *)
(***************************************************************************)
ConditionsOf(c) ==
  LET assessment == assessments[clients_scenarios_map[c].client_type]
      conditions == assessment.data.activity_conditions
  IN  IF ~assessment.enabled THEN {}
      ELSE {conditions[p] : p \in {q \in DOMAIN conditions :
                                     /\ conditions[q].mandatory
                                     /\ conditions[q].enabled
                                     /\ ~conditions[q].deleted}}

StartOf(c, activity_id) == EntryStart(EntryOf(c, activity_id))

EndOf(c, activity_id) == EntryEnd(c, EntryOf(c, activity_id))

(***************************************************************************)
(* C7: for every mandatory, enabled, non-deleted condition with ACTIVITY   *)
(* criteria of an enabled assessment and every client of the assessment,   *)
(* the returned schedule satisfies the predicate of the condition:         *)
(* BEFORE end[a] <= start[b]; AFTER start[a] >= end[b]; RIGHT_AFTER        *)
(* start[a] = end[b]; BETWEEN start[a] >= end[b_before] and                *)
(* end[a] <= start[b_after].                                               *)
(***************************************************************************)
ActivityPredicate(c, condition) ==
  LET a == condition.activity_id
      b == condition.criteria.value.ref
      b_before == condition.criteria.between_values.start.ref
      b_after == condition.criteria.between_values.end.ref
  IN  CASE condition.type = "BEFORE" -> EndOf(c, a) <= StartOf(c, b)
        [] condition.type = "AFTER" -> StartOf(c, a) >= EndOf(c, b)
        [] condition.type = "RIGHT_AFTER" -> StartOf(c, a) = EndOf(c, b)
        [] condition.type = "BETWEEN" ->
             StartOf(c, a) >= EndOf(c, b_before) /\ EndOf(c, a) <= StartOf(c, b_after)
        [] OTHER -> TRUE

ClockMinutes(text) == TotalMinutes(Timedelta(text.hour, text.minute, text.second) - time_start)

TimeConditionsOf(c) ==
  {condition \in ConditionsOf(c) :
     /\ condition.criteria.criteria_type = "TIME"
     /\ condition.type \in {"BEFORE", "AFTER", "BETWEEN"}}

\* the constraint the condition stands for
TimeConstraint(c, condition) ==
  LET a == condition.activity_id
      T == ClockMinutes(condition.criteria.value)
      T_before == ClockMinutes(condition.criteria.between_values.start)
      T_after == ClockMinutes(condition.criteria.between_values.end)
  IN  CASE condition.type = "BEFORE" ->
             [Constraint("before_time") EXCEPT !.client = c, !.activity = a, !.value = T]
        [] condition.type = "AFTER" ->
             [Constraint("after_time") EXCEPT !.client = c, !.activity = a, !.value = T]
        [] condition.type = "BETWEEN" ->
             [Constraint("between_times") EXCEPT
                !.client = c, !.activity = a, !.value = T_before, !.other_value = T_after]

TimePredicate(c, condition) ==
  LET a == condition.activity_id
      T == ClockMinutes(condition.criteria.value)
      T_before == ClockMinutes(condition.criteria.between_values.start)
      T_after == ClockMinutes(condition.criteria.between_values.end)
  IN  CASE condition.type = "BEFORE" -> EndOf(c, a) <= T
        [] condition.type = "AFTER" -> StartOf(c, a) >= T
        [] condition.type = "BETWEEN" -> StartOf(c, a) >= T_before /\ EndOf(c, a) <= T_after

\* __apply_activity_constraints has run, whether it returned or raised
ConditionsApplied ==
  pc \notin {"assessments_setter", "initialize_variables", "define_variables",
             "apply_general_constraints", "apply_activity_constraints"}

TimeConditionsHold ==
  ConditionsApplied =>
    \A c \in Clients : \A condition \in TimeConditionsOf(c) :
      /\ TimeConstraint(c, condition) \in constraints
      /\ Returned => TimePredicate(c, condition)

(***************************************************************************)
(* C9: for every mandatory enabled WITHIN condition of D minutes on an     *)
(* activity a and every client of the assessment, the returned schedule    *)
(* has start[a] >= end[check-in] and start[a] <= start[check-in] + D; the  *)
(* anchor is the client's check-in whatever the condition names.           *)
(***************************************************************************)
WithinConditionsOf(c) == {condition \in ConditionsOf(c) : condition.type = "WITHIN"}

WithinConditionsHold ==
  Returned =>
    \A c \in Clients : \A condition \in WithinConditionsOf(c) :
      /\ StartOf(c, condition.activity_id) >= EndOf(c, IdOf(CheckInName))
      /\ StartOf(c, condition.activity_id)
           <= StartOf(c, IdOf(CheckInName)) + condition.criteria.value.int

\* a returned schedule under a WITHIN condition that names another activity, with the
\* activity starting at the latest time the condition allows
ScheduleAtWithinLimit ==
  /\ Returned
  /\ \E c \in Clients : \E condition \in WithinConditionsOf(c) :
       /\ condition.criteria.between_values.start.ref # None
       /\ StartOf(c, condition.activity_id)
            = StartOf(c, IdOf(CheckInName)) + condition.criteria.value.int

(***************************************************************************)
(* C10: for every mandatory enabled IN_FIXED_ORDER_AS condition with ORDER *)
(* value k on an activity a and every client of the assessment, with n     *)
(* slots, the solved order of a is k when k >= 0 and k + n when k < 0, and *)
(* that order is the position of a in the client's emitted time-sorted     *)
(* list of activities, Transfer entries ignored.                           *)
(***************************************************************************)
FixedOrdersOf(c) ==
  {condition \in ConditionsOf(c) :
     condition.type = "IN_FIXED_ORDER_AS" /\ condition.criteria.criteria_type = "ORDER"}

DeclaredOrder(c, condition) ==
  LET k == condition.criteria.value.int
      n == Len(schedules[c])
  IN  IF k >= 0 THEN k ELSE k + n

\* the place of an activity among the emitted activities of a client, from 0
PositionOf(c, activity_id) ==
  (CHOOSE p \in DOMAIN ActivityEntries(c) :
     ActivityEntries(c)[p].activity_id = activity_id) - 1

FixedOrdersHold ==
  pc \in {"decode", "done"} =>
    \A c \in Clients : \A condition \in FixedOrdersOf(c) :
      /\ solution[c].order[condition.activity_id] = DeclaredOrder(c, condition)
      /\ Returned => PositionOf(c, condition.activity_id) = DeclaredOrder(c, condition)

(***************************************************************************)
(* C11: in every returned schedule, any two distinct clients that both     *)
(* have an MRI slot (MRI Optimal and MRI Ultimate taken together) start    *)
(* their MRIs at different times and end them at different times.          *)
(***************************************************************************)
MriIds == {IdOf(MriOptimalName), IdOf(MriUltimateName)}

\* the MRI entries emitted for a client
MriEntries(c) ==
  {entry \in Range(ActivityEntries(c)) : entry.activity_id \in MriIds}

MriTimesDiffer ==
  Returned =>
    \A c, d \in DOMAIN generated_scenarios :
      c # d =>
        \A entry \in MriEntries(c) : \A other_entry \in MriEntries(d) :
          /\ EntryStart(entry) # EntryStart(other_entry)
          /\ EntryEnd(c, entry) # EntryEnd(d, other_entry)

\* two clients whose MRIs are in different rooms, so that no room keeps them apart
MriInDifferentRooms ==
  /\ Returned
  /\ \E c, d \in DOMAIN generated_scenarios :
       /\ c # d
       /\ \E entry \in MriEntries(c) : \E other_entry \in MriEntries(d) :
            entry.assigned_room # other_entry.assigned_room

(***************************************************************************)
(* C12: in every solved assignment every activity start and end and every  *)
(* transfer start and end is a multiple of 5 minutes from time_start and   *)
(* lies between 0 and the number of minutes from the first-client arrival  *)
(* time to 18:00; so every emitted assigned_time t has 5 * t equal to the  *)
(* solved start, the division by 5 discarding nothing.                     *)
(***************************************************************************)
MinutesToSix ==
  18 * 60 - (60 * scenario_action.first_client_arrival_time.hour
               + scenario_action.first_client_arrival_time.minute)

OnFiveMinuteGrid(t) == t % 5 = 0 /\ 0 <= t /\ t <= MinutesToSix

\* the solved times of a client: its activity starts and ends, its transfer starts
\* and ends
SolvedTimes(c) ==
  Range(solution[c].start) \cup Range(solution[c].end)
    \cup Range(solution[c].transfer_starts) \cup Range(solution[c].transfer_ends)

TimesOnGrid ==
  pc \in {"decode", "done"} =>
    \A c \in Clients :
      /\ \A t \in SolvedTimes(c) : OnFiveMinuteGrid(t)
      /\ Returned =>
           /\ \A uid \in Uids(c) :
                5 * EntryOf(c, uid).assigned_time = solution[c].start[uid]
           /\ {5 * TransferEntries(c)[p].assigned_time : p \in DOMAIN TransferEntries(c)}
                = Range(solution[c].transfer_starts)

\* a returned schedule with a transfer and with activities that start after time_start
ScheduleWithLaterTimes ==
  /\ Returned
  /\ \E c \in Clients :
       /\ TransferEntries(c) # << >>
       /\ \E t \in SolvedTimes(c) : t > 5 /\ t % 10 = 5

(***************************************************************************)
(* C13: generate decodes and returns a schedule only when the status of    *)
(* the solver is OPTIMAL or FEASIBLE; for every other status it fails with *)
(* an error and returns no client entry, complete or partial.              *)
(***************************************************************************)
StatusGatesDecoding ==
  /\ pc \in {"decode", "done"} => status \in {"OPTIMAL", "FEASIBLE"}
  /\ generated_scenarios # << >> => status \in {"OPTIMAL", "FEASIBLE"}
  /\ (status # None /\ status \notin {"OPTIMAL", "FEASIBLE"}) =>
       /\ pc = "raised"
       /\ error = "ValueError"
       /\ generated_scenarios = << >>

\* the solver proved that a request has no schedule
RaisedOnInfeasible == status = "INFEASIBLE" /\ pc = "raised"

(***************************************************************************)
(* C14: within each enabled assessment the clients are materialized in the *)
(* fixed order single males, single females, male-male couples,            *)
(* female-female couples, male-female couples; so the sex and marital type *)
(* of client number i depend on the client counts alone.                   *)
(***************************************************************************)
Materialized == clients_scenarios_map # << >>

\* the sexes of the clients of the couple of a client, in client order
SexesOfCouple(c) ==
  LET partners == {d \in Clients :
                     /\ clients_scenarios_map[d].type = "COUPLE"
                     /\ clients_scenarios_map[d].couple_client_no
                          = clients_scenarios_map[c].couple_client_no}
  IN  <<clients_scenarios_map[MinOf(partners)].sex, clients_scenarios_map[MaxOf(partners)].sex>>

\* the place of the kind of a client in the declared order
KindRank(c) ==
  IF clients_scenarios_map[c].type = "SINGLE"
  THEN IF clients_scenarios_map[c].sex = "MALE" THEN 1 ELSE 2
  ELSE CASE SexesOfCouple(c) = <<"MALE", "MALE">> -> 3
         [] SexesOfCouple(c) = <<"FEMALE", "FEMALE">> -> 4
         [] OTHER -> 5

MaterializedInFixedOrder ==
  Materialized =>
    \A c, d \in Clients :
      (c < d /\ clients_scenarios_map[c].client_type = clients_scenarios_map[d].client_type)
        => KindRank(c) <= KindRank(d)

(***************************************************************************)
(* C15: for any client counts over the assessments, Core included, the     *)
(* materialized client numbers are exactly 0..N-1 with N the sum of        *)
(* singles plus twice the couples; every Optimal number is below every     *)
(* Ultimate one and every Ultimate one below every Core one; the partners  *)
(* of a couple have numbers k and k+1, share a couple_client_no that no    *)
(* other couple has and have no single_client_no; and each kind of client  *)
(* exists as often as the counts ask.                                      *)
(***************************************************************************)
RequestedClients ==
  NumClientsOf(scenario_action.data.client_elite)
    + NumClientsOf(scenario_action.data.client_ultimate)

\* the place of an assessment in the order of the client numbers
TypeRank(client_type) ==
  CASE client_type = "OPTIMAL" -> 0 [] client_type = "ULTIMATE" -> 1 [] OTHER -> 2

ClientsOfKind(client_type, type, sexes) ==
  {c \in Clients :
     /\ clients_scenarios_map[c].client_type = client_type
     /\ clients_scenarios_map[c].type = type
     /\ IF type = "SINGLE" THEN clients_scenarios_map[c].sex = sexes[1]
        ELSE SexesOfCouple(c) = sexes}

CountsMatch(client_type, count) ==
  /\ Cardinality(ClientsOfKind(client_type, "SINGLE", <<"MALE">>)) = count.single_male
  /\ Cardinality(ClientsOfKind(client_type, "SINGLE", <<"FEMALE">>)) = count.single_female
  /\ Cardinality(ClientsOfKind(client_type, "COUPLE", <<"MALE", "MALE">>))
       = 2 * count.couple_male_male
  /\ Cardinality(ClientsOfKind(client_type, "COUPLE", <<"FEMALE", "FEMALE">>))
       = 2 * count.couple_female_female
  /\ Cardinality(ClientsOfKind(client_type, "COUPLE", <<"MALE", "FEMALE">>))
       = 2 * count.couple_male_female

ClientNumbersHold ==
  (/\ pc \notin {"retrieve_generated_scenario", "assessments_setter", "initialize_variables"}
   /\ error \notin {"AttributeError: out_of_order_rooms", "AssertionError: Invalid resources"}) =>
    /\ Clients = 0..(RequestedClients - 1)
    /\ \A c \in Clients : clients_scenarios_map[c].client_number = c
    /\ \A c, d \in Clients :
         TypeRank(clients_scenarios_map[c].client_type)
           < TypeRank(clients_scenarios_map[d].client_type) => c < d
    /\ \A c \in Clients :
         clients_scenarios_map[c].type = "COUPLE" =>
           /\ clients_scenarios_map[c].single_client_no = NoNumber
           /\ \E k \in Clients :
                {d \in Clients : clients_scenarios_map[d].couple_client_no
                                   = clients_scenarios_map[c].couple_client_no}
                  = {k, k + 1}
    /\ CountsMatch("OPTIMAL", scenario_action.data.client_elite)
    /\ CountsMatch("ULTIMATE", scenario_action.data.client_ultimate)

(***************************************************************************)
(* C16: two builds of the model on identical inputs give the same client   *)
(* numbering (number, sex, marital type and couple number per client), the *)
(* same slot uids and the same ordered list of modes per slot: whatever    *)
(* the build could have drawn for the request, it is what the state holds. *)
(***************************************************************************)
BuildIsReproducible ==
  Materialized =>
    \A clients \in ClientsOfAssessments(AssessmentNames, 0, 0) :
      /\ clients_scenarios_map = ZeroBased(clients)
      /\ schedules = [c \in 0..(Len(clients) - 1) |-> ScheduleOf(clients[c + 1])]

(***************************************************************************)
(* C17: with 3 single Optimal clients and only 2 client rooms, generate    *)
(* returns a schedule rather than an error: the check-ins are staggered so *)
(* that no client room holds more clients than its capacity at any         *)
(* instant and at most one client starts check-in in a room of capacity 1  *)
(* at any instant.                                                         *)
(***************************************************************************)
ClientRooms ==
  {resources[i].resource_id : i \in {j \in DOMAIN resources : resources[j].type = "CLIENT"}}

ThreeSinglesTwoClientRooms ==
  /\ scenario_action.data.client_elite.single_male
       + scenario_action.data.client_elite.single_female = 3
  /\ NumCouplesOf(scenario_action.data.client_elite) = 0
  /\ NumClientsOf(scenario_action.data.client_ultimate) = 0
  /\ Cardinality(ClientRooms) = 2

\* the clients whose check-in starts in the room at the instant
CheckInStartsAt(room_id, instant) ==
  {c \in DOMAIN generated_scenarios :
     /\ RoomOf(c, CheckInName) = room_id
     /\ StartOf(c, IdOf(CheckInName)) = instant}

ThreeSinglesGetStaggeredCheckIns ==
  ThreeSinglesTwoClientRooms =>
    /\ status # "INFEASIBLE"
    /\ Returned =>
         \A room_id \in ClientRooms : \A instant \in 0..horizon :
           /\ Cardinality(ClientsInRoomAt(room_id, instant)) <= RoomCapacity(room_id)
           /\ RoomCapacity(room_id) = 1
                => Cardinality(CheckInStartsAt(room_id, instant)) <= 1

(***************************************************************************)
(* C18: the objective value of the schedule generate returns (the sum of   *)
(* the gap indicators plus the sum of the check-in starts) is at most the  *)
(* objective value of every feasible schedule of the same inputs,          *)
(* whichever accepted status, OPTIMAL or FEASIBLE, the solver reported.    *)
(* Stated where the solver is called, over every answer it can give.       *)
(***************************************************************************)
\* the least objective value over the feasible schedules of the request
LeastObjectiveValue(solutions) == MinOf({ObjectiveValue(sol) : sol \in solutions})

\* every answer of one of the statuses is at most every feasible schedule
AnswersAreLeast(statuses) ==
  LET solutions == Solutions
      least == LeastObjectiveValue(solutions)
  IN  \A answer \in SolverAnswers(solutions) :
        answer.status \in statuses => ObjectiveValue(answer.solution) <= least

OutOfOrderRooms == Range(kwargs.data.outOfOrderRooms)

OutOfOrderRoomsRemoved ==
  (OutOfOrderRooms # {} /\ pc # "retrieve_generated_scenario") =>
    /\ error # "AttributeError: out_of_order_rooms"
    /\ \A resource \in Range(resources) : resource.resource_id \notin OutOfOrderRooms
    /\ \A c \in Clients : \A i \in DOMAIN schedules[c] : \A mode \in DOMAIN schedules[c][i] :
         schedules[c][i][mode].room_id \notin OutOfOrderRooms
    /\ \A c \in DOMAIN generated_scenarios : \A p \in DOMAIN EntriesOf(c) :
         EntriesOf(c)[p].assigned_room \notin OutOfOrderRooms

(***************************************************************************)
(* C20: the activity list of every enabled assessment consists of exactly  *)
(* the buckets of activities_names_map whose name holds the name of no     *)
(* other enabled assessment: all buckets when no other assessment is       *)
(* enabled, and the bucket named after the assessment itself in any case.  *)
(***************************************************************************)
\* the names of the buckets in the activity list of an assessment
SelectedNames(name) ==
  {bucket[1].activity_name : bucket \in Range(assessments[name].data.activities)}

\* the names that hold no name of another enabled assessment
NamesWithoutOthers(name) ==
  {activity_name \in DOMAIN activities_names_map :
     Mentions(activity_name) \cap (DOMAIN assessments \ {name}) = {}}

BucketsSelected ==
  pc # "retrieve_generated_scenario" =>
    \A name \in DOMAIN assessments :
      /\ SelectedNames(name) = NamesWithoutOthers(name)
      /\ \A bucket \in Range(assessments[name].data.activities) :
           bucket = activities_names_map[bucket[1].activity_name]
      /\ DOMAIN assessments = {name} => SelectedNames(name) = DOMAIN activities_names_map
      /\ \A activity_name \in DOMAIN activities_names_map :
           Mentions(activity_name) = {name} => activity_name \in SelectedNames(name)

(***************************************************************************)
(* C21: in a solved assignment, when slot j is the immediate successor of  *)
(* slot i on the same floor, j starts when i ends; only the pair           *)
(* (check-in, bloods) of a client of a couple may instead be followed      *)
(* after a gap, and that gap is at most time_max_gap.                      *)
(***************************************************************************)
Solved == pc \in {"decode", "done"}

\* the arcs a client takes between two slots of one floor
SameFloorArcs(c) == Precedes(solution[c]) \ RealTransfers(c, solution[c])

\* start[j] - end[i] on an arc of a client
GapOnArc(c, arc) == solution[c].start[Uid(c, arc[2])] - solution[c].end[Uid(c, arc[1])]

CheckInToBloods(c, arc) ==
  /\ Uid(c, arc[1]) = IdOf(CheckInName)
  /\ Uid(c, arc[2]) = IdOf(BloodsName)

SameFloorGapsHold ==
  Solved =>
    \A c \in Clients : \A arc \in SameFloorArcs(c) :
      \/ GapOnArc(c, arc) = 0
      \/ /\ clients_scenarios_map[c].type = "COUPLE"
         /\ CheckInToBloods(c, arc)
         /\ 0 < GapOnArc(c, arc)
         /\ GapOnArc(c, arc) <= time_max_gap

(***************************************************************************)
(* C22: in every assignment the solver may return, feasible or optimal,    *)
(* the gap indicator of a client's ordered pair of slots (i, j) is true    *)
(* exactly when i and j are on one floor, j is the immediate successor of  *)
(* i, and start[j] - end[i] is at most max_gap and not zero.               *)
(***************************************************************************)
\* the pairs whose indicator the statement makes true, as triples of client and pair
SameFloorNonZeroGaps(sol) ==
  UNION {{<<c, pair[1], pair[2]>> :
            pair \in {arc \in Precedes(sol[c]) :
                        LET difference == sol[c].start[Uid(c, arc[2])]
                                            - sol[c].end[Uid(c, arc[1])]
                        IN  /\ sol[c].floor[Uid(c, arc[1])] = sol[c].floor[Uid(c, arc[2])]
                            /\ difference <= time_max_gap
                            /\ difference # 0}} : c \in DOMAIN sol}

GapIndicatorsExact(statuses) ==
  \A answer \in SolverAnswers(Solutions) :
    answer.status \in statuses => answer.gaps = SameFloorNonZeroGaps(answer.solution)

CircuitArcs(c) ==
  LET circuit == solution[c].circuit
  IN  Precedes(solution[c]) \cup {<<0, circuit[1]>>, <<circuit[Len(circuit)], 0>>}

OrdersFollowCircuit ==
  Solved =>
    \A c \in Clients :
      LET n == Len(schedules[c])
          nodes == Slots(c) \cup {0}
          orders == solution[c].order
      IN  /\ \A node \in nodes :
               /\ Cardinality({arc \in CircuitArcs(c) : arc[1] = node}) = 1
               /\ Cardinality({arc \in CircuitArcs(c) : arc[2] = node}) = 1
          /\ \A i \in Slots(c) : \E p \in 1..n : solution[c].circuit[p] = i
          /\ {orders[uid] : uid \in Uids(c)} = 0..(n - 1)
          /\ \A i, j \in Slots(c) : i # j => orders[Uid(c, i)] # orders[Uid(c, j)]
          /\ \A arc \in Precedes(solution[c]) :
               orders[Uid(c, arc[2])] = orders[Uid(c, arc[1])] + 1

\* a solved assignment whose circuit visits the slots in another sequence than the
\* schedule lists them
CircuitInAnotherSequence ==
  /\ Solved
  /\ \E c \in Clients : \E p \in DOMAIN solution[c].circuit : solution[c].circuit[p] # p

(***************************************************************************)
(* C24: when allow_simultaneous_transfers is false, no two Transfer        *)
(* entries of the returned schedule overlap in time, be they of one client *)
(* or of two; when it is true the flag adds no constraint to the model.    *)
(***************************************************************************)
\* the Transfer entries of the returned schedule, each with its client and place
AllTransferEntries ==
  UNION {{<<c, p>> : p \in {q \in DOMAIN EntriesOf(c) : IsTransfer(EntriesOf(c)[q])}} :
           c \in DOMAIN generated_scenarios}

TransferEntriesOverlap(x, y) ==
  Overlap(EntryStart(EntriesOf(x[1])[x[2]]), EntryStart(EntriesOf(x[1])[x[2]]) + time_transfer,
          EntryStart(EntriesOf(y[1])[y[2]]), EntryStart(EntriesOf(y[1])[y[2]]) + time_transfer)

TransfersNotSimultaneous ==
  /\ (Returned /\ ~simultaneous_transfers) =>
       \A x, y \in AllTransferEntries : x # y => ~TransferEntriesOverlap(x, y)
  /\ (ConditionsApplied /\ simultaneous_transfers) =>
       \A k \in constraints : k.kind # "no_overlap_transfers"

\* a returned schedule with transfers of two clients that may not be simultaneous
TransfersOfTwoClientsApart ==
  /\ Returned
  /\ ~simultaneous_transfers
  /\ \E x, y \in AllTransferEntries : x[1] # y[1]

\* a returned schedule in which transfers of two clients are simultaneous
SimultaneousTransfers ==
  /\ Returned
  /\ simultaneous_transfers
  /\ \E x, y \in AllTransferEntries : x[1] # y[1] /\ TransferEntriesOverlap(x, y)

(***************************************************************************)
(* C25: a mandatory enabled BETWEEN condition with ORDER criteria whose    *)
(* two values leave no order strictly between them is rejected with a      *)
(* ConditionError before the solver runs: the request does not reach the   *)
(* solver and does not end as an infeasible schedule.                      *)
(***************************************************************************)
\* the conditions of a client that ask for an order in an empty range
EmptyOrderRanges(c) ==
  {condition \in ConditionsOf(c) :
     /\ condition.type = "BETWEEN"
     /\ condition.criteria.criteria_type = "ORDER"
     /\ condition.enabled /\ condition.mandatory /\ ~condition.deleted
     /\ ~condition.criteria.between_values.start.isnone
     /\ ~condition.criteria.between_values.end.isnone
     /\ \A order \in 0..(Len(schedules[c]) - 1) :
          ~(/\ condition.criteria.between_values.end.int < order
            /\ order < condition.criteria.between_values.start.int)}

EmptyOrderRangesRejected ==
  (/\ pc \notin {"retrieve_generated_scenario", "assessments_setter", "initialize_variables",
                 "define_variables", "apply_general_constraints",
                 "apply_activity_constraints"}
   /\ \E c \in Clients : EmptyOrderRanges(c) # {}) =>
    /\ pc = "raised"
    /\ error = "ConditionError"

(***************************************************************************)
(* C26: in a solved assignment, counting only the clients whose slot for   *)
(* the activity offers more than one candidate room and whatever the times *)
(* are: every room is selected for check-in by at most as many clients as  *)
(* its capacity (2 for the double rooms, else 1) and by at most one single *)
(* client, and is selected by at most 3 clients for the first consultation *)
(* and by at most 3 clients for the final consultation.                    *)
(***************************************************************************)
\* the clients among the given ones with a choice of rooms for the activity who
\* select the room for it
SelectingRoom(clients, room_id, name) ==
  {c \in clients :
     /\ IdOf(name) \in Uids(c)
     /\ MultiMode(c, SlotOf(c, IdOf(name)))
     /\ room_id \in solution[c].rooms[IdOf(name)]}

SingleClients == {c \in Clients : clients_scenarios_map[c].type = "SINGLE"}

FreeWindows(c) ==
  {t \in Grid :
     /\ t + time_transfer <= horizon
     /\ \A uid \in Uids(c) :
          ~Overlap(t, t + time_transfer, solution[c].start[uid], solution[c].end[uid])
     /\ \A arc \in DOMAIN solution[c].transfer_starts :
          ~Overlap(t, t + time_transfer, solution[c].transfer_starts[arc],
                   solution[c].transfer_ends[arc])}

SameFloorTransfersFit ==
  Solved =>
    \A c \in Clients : Cardinality(SameFloorArcs(c)) <= Cardinality(FreeWindows(c))

CheckInStart(c) == solution[c].start[start_activity_id]

\* client c is the partner of client c-1
SecondPartner(c) ==
  /\ c > 0
  /\ clients_scenarios_map[c].type = "COUPLE"
  /\ clients_scenarios_map[c - 1].type = "COUPLE"
  /\ clients_scenarios_map[c].couple_client_no = clients_scenarios_map[c - 1].couple_client_no
  /\ ~(c > 1 /\ clients_scenarios_map[c - 2].type = "COUPLE"
             /\ clients_scenarios_map[c - 2].couple_client_no
                  = clients_scenarios_map[c].couple_client_no)

OrdersAgreeWithTime ==
  Solved =>
    \A c \in Clients : \A uid, other_uid \in Uids(c) :
      solution[c].order[uid] < solution[c].order[other_uid]
        => solution[c].end[uid] <= solution[c].start[other_uid]

\* the statement for every client but the second partner of a couple
OrdersAgreeWithTimeButPartner ==
  Solved =>
    \A c \in Clients : \A uid, other_uid \in Uids(c) :
      (~SecondPartner(c) /\ solution[c].order[uid] < solution[c].order[other_uid])
        => solution[c].end[uid] <= solution[c].start[other_uid]
====
